---- MODULE Spec2Model ----
(***************************************************************************)
(* Enclave-key lifecycle of the LCP relayer prover (relay/prover.go).      *)
(*                                                                         *)
(* The prover keeps one active enclave key in memory together with the id  *)
(* of its registration message while that registration is not finalized.   *)
(* UpdateEKIfNeeded reconciles memory, the persisted key store, the LCP    *)
(* service and the destination chain.  The LCP service, the destination    *)
(* chain, the clock and the disk are the environment: their state is held  *)
(* in variables that only environment actions change, so that one call of  *)
(* UpdateEKIfNeeded is a function of the state it starts in.               *)
(***************************************************************************)
EXTENDS Integers, Sequences, FiniteSets, TLC

----------------------------------------------------------------------------
(* Bounds of the model *)

MaxNow == 2          \* the clock runs from 0 to MaxNow ticks
MaxHeight == 2       \* destination chain heights run from 1 to MaxHeight
MaxKeys == 2         \* the LCP service holds at most MaxKeys keys at a time
NumMsgIDs == 2       \* message ids the destination chain hands out
MaxCandidates == 3   \* keys the LCP service returns when selection is examined
MaxHeaders == 2      \* headers the origin prover returns for one update
MaxTimestamp == 3    \* AVR timestamps run from 0 to MaxTimestamp instants
MaxClientHeight == 2 \* heights of the origin chain run from 1 to MaxClientHeight
MaxBlockTime == 4    \* the block time runs from 0 to MaxBlockTime instants

----------------------------------------------------------------------------
(* Values *)

Nil == 0             \* Go's nil: no key, no message id

Second == 1          \* clock ticks per second (time.Second)

KeyExpiration == 2   \* config.KeyExpiration, in seconds

Mrenclave == "MR1"                             \* config.GetMrenclave()
AllowedQuoteStatuses == {"SW_HARDENING_NEEDED"} \* config.AllowedQuoteStatuses
AllowedAdvisoryIds == {"A1"}                   \* config.AllowedAdvisoryIds
QuoteOK == "OK"                                \* oias.QuoteOK

Operator == "opA"                              \* eip712Signer.GetSignerAddress()
ZeroAddress == "0x0"                           \* [20]byte{}

(* The MRENCLAVE of the client state of the LCP client on the destination  *)
(* chain, as CreateInitialLightClientState takes it from the               *)
(* configuration.                                                          *)
ClientStateMrenclave == Mrenclave

(* The enclave keys the LCP service can ever offer, by enclave key         *)
(* address.  Each entry is an EnclaveKeyInfo with the fields of its AVR:   *)
(* attestation time in seconds, MRENCLAVE of the quote, ISV enclave quote  *)
(* status, advisory ids, whether report/signature/certificate verify, and  *)
(* the operator address embedded in the report data.                       *)
EKI ==
  <<[AttestationTime |-> 1, MRENCLAVE |-> "MR2", ISVEnclaveQuoteStatus |-> "OK",
     AdvisoryIDs |-> {}, ValidAVR |-> TRUE, ExpectedOperator |-> ZeroAddress],
    [AttestationTime |-> 1, MRENCLAVE |-> "MR1", ISVEnclaveQuoteStatus |-> "GROUP_OUT_OF_DATE",
     AdvisoryIDs |-> {}, ValidAVR |-> TRUE, ExpectedOperator |-> ZeroAddress],
    [AttestationTime |-> 0, MRENCLAVE |-> "MR1", ISVEnclaveQuoteStatus |-> "OK",
     AdvisoryIDs |-> {"A1"}, ValidAVR |-> TRUE, ExpectedOperator |-> ZeroAddress],
    [AttestationTime |-> 0, MRENCLAVE |-> "MR1", ISVEnclaveQuoteStatus |-> "OK",
     AdvisoryIDs |-> {}, ValidAVR |-> TRUE, ExpectedOperator |-> ZeroAddress],
    [AttestationTime |-> 1, MRENCLAVE |-> "MR1", ISVEnclaveQuoteStatus |-> "SW_HARDENING_NEEDED",
     AdvisoryIDs |-> {"A1"}, ValidAVR |-> TRUE, ExpectedOperator |-> Operator],
    [AttestationTime |-> 1, MRENCLAVE |-> "MR1", ISVEnclaveQuoteStatus |-> "SW_HARDENING_NEEDED",
     AdvisoryIDs |-> {"A2"}, ValidAVR |-> TRUE, ExpectedOperator |-> ZeroAddress],
    [AttestationTime |-> 1, MRENCLAVE |-> "MR1", ISVEnclaveQuoteStatus |-> "OK",
     AdvisoryIDs |-> {}, ValidAVR |-> FALSE, ExpectedOperator |-> ZeroAddress],
    [AttestationTime |-> 1, MRENCLAVE |-> "MR1", ISVEnclaveQuoteStatus |-> "OK",
     AdvisoryIDs |-> {}, ValidAVR |-> TRUE, ExpectedOperator |-> "opB"]>>

KeyAddrs == DOMAIN EKI

(* The keys the LCP service comes to hold: the ones the relayer can         *)
(* register.  Whatever the state, key 1 fails the MRENCLAVE comparison of  *)
(* registerEnclaveKey and key 2 the quote-status check of                  *)
(* selectNewEnclaveKey.                                                    *)
OfferedKeys == {3, 4, 5}
MsgIDs == 1..NumMsgIDs

(* What can go wrong in the environment during a call of UpdateEKIfNeeded; *)
(* at most one fault is in effect.  The fault reaches the code through the *)
(* ctx and counterparty arguments, which stand for it here.                *)
(*   load     LoadLastUnfinalized fails (not with NotFound)                *)
(*   loadfin  LoadLastFinalized fails (not with NotFound)                  *)
(*   save     SaveFinalized / SaveUnfinalized fail                         *)
(*   remove   RemoveUnfinalized fails                                      *)
(*   lfheader GetLatestFinalizedHeader fails                               *)
(*   probe    the LCP service's EnclaveKey query fails                     *)
(*   list     the LCP service's AvailableEnclaveKeys query fails           *)
(*   send     LatestHeight / QueryClientState / GetAddress / SendMsgs fail *)
(*   ids      SendMsgs returns a number of message ids other than one      *)
(*   msgfail  a submitted message is included but its execution fails      *)
(*   msglost  a submitted message is not found when it is looked up        *)
Faults == {"none", "load", "loadfin", "save", "remove", "lfheader", "probe",
           "list", "send", "ids", "msgfail", "msglost"}

(* A message result on the destination chain: GetMsgResult fails           *)
(* ("notfound"), or yields a result whose Status() is ok ("ok") or not     *)
(* ("failed") and whose BlockHeight() is height.                           *)
NoMsg == [status |-> "notfound", height |-> 0]
MsgResults(h) ==
  {NoMsg} \cup [status : {"ok", "failed"}, height : 1..h]

(* The LCP client on the destination chain (package types).  A time.Time   *)
(* is a number of instants, InstantsPerSecond of them to the second: the   *)
(* timestamp of an AVR is not a whole number of seconds in general.  The   *)
(* client state is the one CreateInitialLightClientState builds from the   *)
(* configuration.                                                          *)
InstantsPerSecond == 2
ClientKeys == {1, 2}      \* enclave key addresses seen by the client
NotStored == -1           \* clientStore.Has(enclaveKeyPath(key)) is false

(* The AVRs the client is shown: quote status, advisory ids and MRENCLAVE,  *)
(* whether ias.VerifyReport accepts report, signature and certificate, and *)
(* whether ias.ParseAndValidateAVR accepts the report.  Three that the     *)
(* policy of the client state accepts, and one for each way of being       *)
(* refused.                                                                *)
AVR(status, advisories, mrenclave, verifies, validAVR) ==
  [status |-> status, advisories |-> advisories, mrenclave |-> mrenclave,
   verifies |-> verifies, validAVR |-> validAVR]
AVRs ==
  {AVR(QuoteOK, {}, "MR1", TRUE, TRUE),
   AVR("SW_HARDENING_NEEDED", {}, "MR1", TRUE, TRUE),
   AVR("SW_HARDENING_NEEDED", {"A1"}, "MR1", TRUE, TRUE),
   AVR(QuoteOK, {"A1"}, "MR1", TRUE, TRUE),
   AVR("SW_HARDENING_NEEDED", {"A2"}, "MR1", TRUE, TRUE),
   AVR("GROUP_OUT_OF_DATE", {}, "MR1", TRUE, TRUE),
   AVR(QuoteOK, {}, "MR2", TRUE, TRUE),
   AVR(QuoteOK, {}, "MR1", FALSE, TRUE),
   AVR(QuoteOK, {}, "MR1", TRUE, FALSE)}

(* The RegisterEnclaveKeyMessages the client can be handed: an AVR with    *)
(* the address of the enclave key of its quote and its timestamp.          *)
Reports ==
  {[addr |-> a, timestamp |-> t, status |-> v.status, advisories |-> v.advisories,
    mrenclave |-> v.mrenclave, verifies |-> v.verifies, validAVR |-> v.validAVR] :
     a \in ClientKeys, t \in 0..MaxTimestamp, v \in AVRs}

(* The heights of the origin chain the client can hold consensus states    *)
(* for, the state ids, and a consensus state: StateId and Timestamp.       *)
ClientHeights == 1..MaxClientHeight
StateIDs == {"s1", "s2"}
NoConsensusState == [StateId |-> "", Timestamp |-> 0]

(* The UpdateClientMessages the client can be handed.  PrevHeight 0 and    *)
(* PrevStateID "" stand for nil.  defect names the one thing wrong with    *)
(* the message, if any: GetELCMessage fails ("elc"), EmittedStates is      *)
(* empty ("empty"), the signature is not the signer's ("signature"), the   *)
(* context does not validate against the block time ("context").  The      *)
(* timestamp of the origin chain's header grows with its height.           *)
UpdateClientMessages ==
  {m \in [signer : ClientKeys,
          defect : {"none", "elc", "empty", "signature", "context"},
          PrevHeight : 0..MaxClientHeight, PrevStateID : {""} \cup StateIDs,
          PostHeight : ClientHeights, PostStateID : StateIDs] :
     (m.PrevHeight = 0) <=> (m.PrevStateID = "")}
ELCTimestamp(message) == message.PostHeight

ElcClientId == "lcp-0"    \* config.ElcClientId

(* No client state: CreateInitialLightClientState returned nil. *)
NoClientState ==
  [nil |-> TRUE, LatestHeight |-> 0, Mrenclave |-> "", KeyExpiration |-> 0,
   AllowedQuoteStatuses |-> {}, AllowedAdvisoryIds |-> {}]

NoClientMsg ==
  [kind |-> "register", handled |-> FALSE, err |-> FALSE, before |-> NotStored,
   message |-> [addr |-> 1, timestamp |-> 0, status |-> QuoteOK, advisories |-> {},
                mrenclave |-> "MR1", verifies |-> TRUE, validAVR |-> TRUE]]

----------------------------------------------------------------------------
VARIABLES
  activeEnclaveKey,   \* pr.activeEnclaveKey: a key address or Nil
  unfinalizedMsgID,   \* pr.unfinalizedMsgID: a message id or Nil
  finalizedDB,        \* key store: addresses with a Finalized record
  unfinalizedDB,      \* key store: the Unfinalized records [eki, msgID]
  now,                \* the clock, in ticks
  lcpKeys,            \* the keys the LCP service knows
  latestHeight,       \* destination chain: latest block height
  lfHeight,           \* destination chain: latest finalized height
  msgs,               \* destination chain: message id -> result
  operatorCfg,        \* operator co-signing: whether it is enabled, and the
                      \* operators of the client state on the destination chain
  fault,              \* the fault that changed the course of the call just made
  ret,                \* outcome of the call just made: "idle", "ok", "err",
                      \* "panic"
  log,                \* what the call just made did, in order
  forwarded,          \* the requests the call just made forwarded to the
                      \* origin prover and the LCP service, in order
  enclaveKeys,        \* LCP client on the destination chain: the client
                      \* store under aux/enclave_keys/, address -> stored
                      \* expiration in seconds, or NotStored
  clientMsg,          \* LCP client on the destination chain: the client
                      \* message handled last and what became of it
  csLatestHeight,     \* LCP client on the destination chain: the client
                      \* state's LatestHeight, 0 when it is zero
  consensusStates,    \* LCP client on the destination chain: height -> the
                      \* consensus state stored at it, or NoConsensusState
  blockTime,          \* destination chain: ctx.BlockTime(), in instants
  created,            \* what the last CreateInitialLightClientState returned
  elcClients          \* LCP service: the ids of the ELC clients it holds

vars == <<activeEnclaveKey, unfinalizedMsgID, finalizedDB, unfinalizedDB, now,
          lcpKeys, latestHeight, lfHeight, msgs, operatorCfg, fault, ret, log,
          forwarded, enclaveKeys, clientMsg, csLatestHeight, consensusStates,
          blockTime, created, elcClients>>

(* The variables of the LCP client on the destination chain. *)
clientVars == <<enclaveKeys, clientMsg, csLatestHeight, consensusStates, blockTime>>

IsOperatorEnabled == operatorCfg.enabled         \* pr.IsOperatorEnabled()
ClientStateOperators == operatorCfg.operators    \* clientState.GetOperators()

----------------------------------------------------------------------------
(* The persistent key store.  Its code is not part of the sources at hand; *)
(* it is modelled from its contract: one record per enclave key address,   *)
(* Finalized records and Unfinalized records [eki, msgID].                 *)

(* SaveFinalized(eki): writes a record with status Finalized. *)
saveFinalizedEnclaveKeyInfo(ctx, fin, eki) ==
  IF ctx = "save"
    THEN [err |-> TRUE, fin |-> fin]
    ELSE [err |-> FALSE, fin |-> fin \cup {eki}]

(* A SaveUnfinalized that does not look for another unfinalized record. *)
saveUnfinalized_Unguarded(ctx, unf, eki, msgID) ==
  IF ctx = "save"
    THEN [err |-> TRUE, unf |-> unf]
    ELSE [err |-> FALSE, unf |-> unf \cup {[eki |-> eki, msgID |-> msgID]}]

(* SaveUnfinalized(eki, msgID): writes a record with status Unfinalized;   *)
(* fails if any other unfinalized record exists.                           *)
saveUnfinalizedEnclaveKeyInfo(ctx, unf, eki, msgID) ==
  IF ctx = "save" \/ (\E r \in unf : r.eki # eki)
    THEN [err |-> TRUE, unf |-> unf]
    ELSE [err |-> FALSE, unf |-> {[eki |-> eki, msgID |-> msgID]}]

(* RemoveUnfinalized(): removes the unfinalized record if any; idempotent. *)
removeUnfinalizedEnclaveKeyInfo(ctx, unf) ==
  IF ctx = "remove"
    THEN [err |-> TRUE, unf |-> unf]
    ELSE [err |-> FALSE, unf |-> {}]

(* LoadLastUnfinalized(): the sole unfinalized record, NotFound if none. *)
loadLastUnfinalizedEnclaveKey(ctx, unf) ==
  IF ctx = "load" THEN [err |-> "io", eki |-> Nil, msgID |-> Nil]
  ELSE IF unf = {} THEN [err |-> "notfound", eki |-> Nil, msgID |-> Nil]
  ELSE LET r == CHOOSE x \in unf : TRUE
       IN [err |-> "none", eki |-> r.eki, msgID |-> r.msgID]

(* The finalized records LoadLastFinalized() may answer with: those of the *)
(* latest attestation time (Nil stands for NotFound).                      *)
LastFinalized(fin) ==
  IF fin = {} THEN {Nil}
  ELSE {k \in fin : \A j \in fin : EKI[j].AttestationTime <= EKI[k].AttestationTime}

(* LoadLastFinalized(), given the record the store picks. *)
loadLastFinalizedEnclaveKey(ctx, last) ==
  IF ctx = "loadfin" THEN [err |-> "io", eki |-> Nil]
  ELSE IF last = Nil THEN [err |-> "notfound", eki |-> Nil]
  ELSE [err |-> "none", eki |-> last]

----------------------------------------------------------------------------
(* The LCP service *)

(* EnclaveKey(address): the key, or an error when it is not known. *)
EnclaveKeyFound(ctx, addr) == ctx # "probe" /\ addr \in lcpKeys

(* AvailableEnclaveKeys(mrenclave): the keys the service knows, in the     *)
(* order the service returns them (by address).                            *)
RECURSIVE SortedFrom(_, _)
SortedFrom(S, n) ==
  IF n > Len(EKI) THEN <<>>
  ELSE (IF n \in S THEN <<n>> ELSE <<>>) \o SortedFrom(S, n + 1)

AvailableEnclaveKeys == SortedFrom(lcpKeys, 1)

----------------------------------------------------------------------------
(* The destination chain *)

GetMsgResult(chain, msgID) == chain[msgID]

(* The result the chain gives a message submitted now: it is included in   *)
(* the latest block.                                                       *)
NewMsgResult(counterparty) ==
  IF counterparty = "msglost" THEN NoMsg
  ELSE IF counterparty = "msgfail" THEN [status |-> "failed", height |-> latestHeight]
  ELSE [status |-> "ok", height |-> latestHeight]

(* A message id the prover holds nowhere: the id of the next message. *)
FreshMsgID(unf) ==
  CHOOSE id \in MsgIDs :
    /\ \A r \in unf : r.msgID # id
    /\ \A j \in MsgIDs : (\A r \in unf : r.msgID # j) => id <= j

----------------------------------------------------------------------------
(* The prover *)

TimeUnix(sec) == sec * Second

(* A staleness check that looks at the LCP service only. *)
checkEKIUpdateNeeded_NoExpiry(ctx, timestamp, eki) ==
  IF ~EnclaveKeyFound(ctx, eki) THEN TRUE ELSE FALSE

(* A comparison that also holds at the instant itself. *)
After_OrEqual(t, u) == t >= u

(* time.Time.After *)
After(t, u) == t > u

(* checkEKIUpdateNeeded: true if the key is past half of its expiration or *)
(* the LCP service does not answer for it.                                 *)
checkEKIUpdateNeeded(ctx, timestamp, eki) ==
  LET attestationTime == TimeUnix(EKI[eki].AttestationTime)
      updateTime == attestationTime + (KeyExpiration * Second) \div 2
  IN IF After(timestamp, updateTime) THEN TRUE
     ELSE IF ~EnclaveKeyFound(ctx, eki) THEN TRUE
     ELSE FALSE

(* checkMsgStatus: (finalized, success, error) of a message. *)
checkMsgStatus(counterparty, chain, msgID) ==
  IF counterparty = "lfheader"
    THEN [finalized |-> FALSE, success |-> FALSE, err |-> TRUE]
  ELSE LET msgRes == GetMsgResult(chain, msgID) IN
    IF msgRes.status = "notfound"
      THEN [finalized |-> FALSE, success |-> FALSE, err |-> TRUE]
    ELSE IF msgRes.status # "ok"
      THEN [finalized |-> FALSE, success |-> FALSE, err |-> FALSE]
    ELSE [finalized |-> msgRes.height <= lfHeight, success |-> TRUE, err |-> FALSE]

validateISVEnclaveQuoteStatus(s) ==
  IF s = QuoteOK THEN TRUE
  ELSE s \in AllowedQuoteStatuses

validateAdvisoryIDs(ids) ==
  IF ids = {} THEN TRUE
  ELSE ids \ AllowedAdvisoryIds = {}

(* The loop of selectNewEnclaveKey over the keys the service returned. *)
RECURSIVE selectFrom(_, _)
selectFrom(ctx, keys) ==
  IF keys = <<>> THEN [eki |-> Nil, err |-> TRUE]
  ELSE LET eki == Head(keys) IN
    IF ~EKI[eki].ValidAVR THEN [eki |-> Nil, err |-> TRUE]
    ELSE IF checkEKIUpdateNeeded(ctx, now, eki) THEN selectFrom(ctx, Tail(keys))
    ELSE IF ~validateISVEnclaveQuoteStatus(EKI[eki].ISVEnclaveQuoteStatus)
      THEN selectFrom(ctx, Tail(keys))
    ELSE IF ~validateAdvisoryIDs(EKI[eki].AdvisoryIDs)
      THEN selectFrom(ctx, Tail(keys))
    ELSE [eki |-> eki, err |-> FALSE]

(* selectNewEnclaveKey: the first usable key of the LCP service. *)
selectNewEnclaveKey(ctx) ==
  IF ctx = "list" THEN [eki |-> Nil, err |-> TRUE]
  ELSE IF AvailableEnclaveKeys = <<>> THEN [eki |-> Nil, err |-> TRUE]
  ELSE selectFrom(ctx, AvailableEnclaveKeys)

(* A registration that does not compare the client state's MRENCLAVE with  *)
(* the quote's.                                                            *)
registerEnclaveKey_NoMrenclaveCheck(counterparty, unf, eki) ==
  LET fail(sent) == [msgID |-> Nil, err |-> TRUE, sent |-> sent,
                     opsig |-> sent /\ IsOperatorEnabled] IN
  IF ~EKI[eki].ValidAVR THEN fail(FALSE)
  ELSE IF counterparty = "send" THEN fail(FALSE)
  ELSE IF IsOperatorEnabled /\ Operator \notin ClientStateOperators THEN fail(FALSE)
  ELSE IF /\ IsOperatorEnabled
          /\ EKI[eki].ExpectedOperator # ZeroAddress
          /\ Operator # EKI[eki].ExpectedOperator THEN fail(FALSE)
  ELSE IF counterparty = "ids" THEN fail(TRUE)
  ELSE [msgID |-> FreshMsgID(unf), err |-> FALSE, sent |-> TRUE,
        opsig |-> IsOperatorEnabled]

(* A registration that signs as operator without looking at the client    *)
(* state's operators or at the operator the report data expects.           *)
registerEnclaveKey_NoOperatorCheck(counterparty, unf, eki) ==
  LET fail(sent) == [msgID |-> Nil, err |-> TRUE, sent |-> sent,
                     opsig |-> sent /\ IsOperatorEnabled] IN
  IF ~EKI[eki].ValidAVR THEN fail(FALSE)
  ELSE IF counterparty = "send" THEN fail(FALSE)
  ELSE IF ClientStateMrenclave # EKI[eki].MRENCLAVE THEN fail(FALSE)
  ELSE IF counterparty = "ids" THEN fail(TRUE)
  ELSE [msgID |-> FreshMsgID(unf), err |-> FALSE, sent |-> TRUE,
        opsig |-> IsOperatorEnabled]

(* registerEnclaveKey: submits the registration message of eki.  sent says *)
(* whether SendMsgs took the message, opsig whether the message carries an *)
(* operator signature.                                                     *)
registerEnclaveKey(counterparty, unf, eki) ==
  LET fail(sent) == [msgID |-> Nil, err |-> TRUE, sent |-> sent,
                     opsig |-> sent /\ IsOperatorEnabled] IN
  IF ~EKI[eki].ValidAVR THEN fail(FALSE)
  ELSE IF counterparty = "send" THEN fail(FALSE)  \* LatestHeight, QueryClientState
  ELSE IF ClientStateMrenclave # EKI[eki].MRENCLAVE THEN fail(FALSE)
  ELSE IF IsOperatorEnabled /\ Operator \notin ClientStateOperators THEN fail(FALSE)
  ELSE IF /\ IsOperatorEnabled
          /\ EKI[eki].ExpectedOperator # ZeroAddress
          /\ Operator # EKI[eki].ExpectedOperator THEN fail(FALSE)
  ELSE IF counterparty = "ids" THEN fail(TRUE)
  ELSE [msgID |-> FreshMsgID(unf), err |-> FALSE, sent |-> TRUE,
        opsig |-> IsOperatorEnabled]

(* The prover's state as a call carries it along: memory (a, m), the store *)
(* (fin, unf), and what the call has done so far.                          *)
St(a, m, fin, unf, lg) == [a |-> a, m |-> m, fin |-> fin, unf |-> unf, log |-> lg]

(* Outcome of loadEKIAndCheckUpdateNeeded: state, (bool, error). *)
Out(st, need, err) == [st |-> st, need |-> need, err |-> err]

(* A loading that prefers the last finalized key to the unfinalized one. *)
loadIntoMemory_FinalizedFirst(ctx, last) ==
  LET st0 == St(activeEnclaveKey, unfinalizedMsgID, finalizedDB, unfinalizedDB, <<>>)
      go(st) == [out |-> Out(st, FALSE, FALSE), done |-> FALSE]
      stop(need, err) == [out |-> Out(st0, need, err), done |-> TRUE]
  IN IF activeEnclaveKey # Nil THEN go(st0)
     ELSE LET f == loadLastFinalizedEnclaveKey(ctx, last) IN
       IF f.err = "none"
         THEN go(St(f.eki, Nil, finalizedDB, unfinalizedDB, <<"LoadFinalized">>))
       ELSE IF f.err = "notfound"
         THEN LET u == loadLastUnfinalizedEnclaveKey(ctx, unfinalizedDB) IN
           IF u.err = "notfound" THEN stop(TRUE, FALSE)
           ELSE IF u.err # "none" THEN stop(FALSE, TRUE)
           ELSE go(St(u.eki, u.msgID, finalizedDB, unfinalizedDB, <<"LoadUnfinalized">>))
       ELSE stop(FALSE, TRUE)

(* First part of loadEKIAndCheckUpdateNeeded: with no key in memory, load  *)
(* the last unfinalized key, else the last finalized key.  done says that  *)
(* the function returns here.                                              *)
loadIntoMemory(ctx, last) ==
  LET st0 == St(activeEnclaveKey, unfinalizedMsgID, finalizedDB, unfinalizedDB, <<>>)
      go(st) == [out |-> Out(st, FALSE, FALSE), done |-> FALSE]
      stop(need, err) == [out |-> Out(st0, need, err), done |-> TRUE]
  IN IF activeEnclaveKey # Nil THEN go(st0)
     ELSE LET u == loadLastUnfinalizedEnclaveKey(ctx, unfinalizedDB) IN
       IF u.err = "none"
         THEN go(St(u.eki, u.msgID, finalizedDB, unfinalizedDB, <<"LoadUnfinalized">>))
       ELSE IF u.err = "notfound"
         THEN LET f == loadLastFinalizedEnclaveKey(ctx, last) IN
           IF f.err = "notfound" THEN stop(TRUE, FALSE)
           ELSE IF f.err # "none" THEN stop(FALSE, TRUE)
           ELSE go(St(f.eki, Nil, finalizedDB, unfinalizedDB, <<"LoadFinalized">>))
       ELSE stop(FALSE, TRUE)

(* A branch for a lost message that asks for a new key but leaves the      *)
(* unfinalized record in the store.                                        *)
dropUnfinalized_KeepRecord(ctx, st) == Out(st, TRUE, FALSE)

(* The branch of loadEKIAndCheckUpdateNeeded for a message that is not     *)
(* found or whose execution failed: remove the unfinalized record.         *)
dropUnfinalized(ctx, st) ==
  LET r == removeUnfinalizedEnclaveKeyInfo(ctx, st.unf) IN
  IF r.err THEN Out(st, FALSE, TRUE)
  ELSE Out(St(st.a, st.m, st.fin, r.unf, st.log \o <<"RemoveUnfinalized">>), TRUE, FALSE)

(* A promotion that removes the Unfinalized record before it saves the     *)
(* Finalized one.                                                          *)
promote_RemoveFirst(ctx, st) ==
  IF checkEKIUpdateNeeded(ctx, now, st.a) THEN Out(st, TRUE, FALSE)
  ELSE LET r == removeUnfinalizedEnclaveKeyInfo(ctx, st.unf) IN
    IF r.err THEN Out(st, FALSE, TRUE)
    ELSE LET s == saveFinalizedEnclaveKeyInfo(ctx, st.fin, st.a)
             lg == st.log \o <<"RemoveUnfinalized">>
      IN IF s.err THEN Out(St(st.a, st.m, st.fin, r.unf, lg), FALSE, TRUE)
         ELSE Out(St(st.a, Nil, s.fin, r.unf, lg \o <<"SaveFinalized">>),
                  FALSE, FALSE)

(* A promotion that leaves the message id in memory. *)
promote_KeepMsgID(ctx, st) ==
  IF checkEKIUpdateNeeded(ctx, now, st.a) THEN Out(st, TRUE, FALSE)
  ELSE LET s == saveFinalizedEnclaveKeyInfo(ctx, st.fin, st.a) IN
    IF s.err THEN Out(st, FALSE, TRUE)
    ELSE LET r == removeUnfinalizedEnclaveKeyInfo(ctx, st.unf)
             lg == st.log \o <<"SaveFinalized">>
      IN IF r.err THEN Out(St(st.a, st.m, s.fin, st.unf, lg), FALSE, TRUE)
         ELSE Out(St(st.a, st.m, s.fin, r.unf, lg \o <<"RemoveUnfinalized">>),
                  FALSE, FALSE)

(* The branch of loadEKIAndCheckUpdateNeeded for a message that succeeded  *)
(* and is finalized.                                                       *)
promote(ctx, st) ==
  IF checkEKIUpdateNeeded(ctx, now, st.a) THEN Out(st, TRUE, FALSE)
  ELSE LET s == saveFinalizedEnclaveKeyInfo(ctx, st.fin, st.a) IN
    IF s.err THEN Out(st, FALSE, TRUE)
    ELSE LET r == removeUnfinalizedEnclaveKeyInfo(ctx, st.unf)
             lg == st.log \o <<"SaveFinalized">>
      IN IF r.err THEN Out(St(st.a, st.m, s.fin, st.unf, lg), FALSE, TRUE)
         ELSE Out(St(st.a, Nil, s.fin, r.unf, lg \o <<"RemoveUnfinalized">>),
                  FALSE, FALSE)

(* loadEKIAndCheckUpdateNeeded: true if a new key must be selected and     *)
(* registered.  last is the record LoadLastFinalized answers with.         *)
loadEKIAndCheckUpdateNeeded(ctx, last) ==
  LET l == loadIntoMemory(ctx, last)
      st == l.out.st
  IN IF l.done THEN l.out
     \* finalized enclave key
     ELSE IF st.m = Nil THEN Out(st, checkEKIUpdateNeeded(ctx, now, st.a), FALSE)
     \* unfinalized enclave key
     ELSE IF GetMsgResult(msgs, st.m).status = "notfound" THEN dropUnfinalized(ctx, st)
     ELSE LET c == checkMsgStatus(ctx, msgs, st.m) IN
       IF c.err THEN Out(st, FALSE, TRUE)
       ELSE IF ~c.success THEN dropUnfinalized(ctx, st)
       ELSE IF c.finalized THEN promote(ctx, st)
       ELSE Out(st, checkEKIUpdateNeeded(ctx, now, st.a), FALSE)

(* Outcome of UpdateEKIfNeeded: state, the chain's messages, error. *)
Res(st, chain, err) == [st |-> st, msgs |-> chain, err |-> err]

(* A clearing of memory that leaves the key. *)
clearMemory_MsgIDOnly(st) == St(st.a, Nil, st.fin, st.unf, st.log \o <<"ClearMemory">>)

(* A clearing of memory that forgets the message id. *)
clearMemory_KeyOnly(st) == St(Nil, st.m, st.fin, st.unf, st.log \o <<"ClearMemory">>)

(* pr.activeEnclaveKey, pr.unfinalizedMsgID = nil, nil *)
clearMemory(st) == St(Nil, Nil, st.fin, st.unf, st.log \o <<"ClearMemory">>)

(* An end of UpdateEKIfNeeded that sets memory before it persists, so that *)
(* a failed save leaves the key in memory.                                 *)
persistAndSetMemory_SetFirst(ctx, st, eki, msgID, finalized) ==
  IF finalized
    THEN LET s == saveFinalizedEnclaveKeyInfo(ctx, st.fin, eki) IN
      IF s.err THEN Out(St(eki, st.m, st.fin, st.unf, st.log \o <<"SetMemory">>), FALSE, TRUE)
      ELSE Out(St(eki, st.m, s.fin, st.unf, st.log \o <<"SetMemory", "SaveFinalized">>),
               FALSE, FALSE)
    ELSE LET s == saveUnfinalizedEnclaveKeyInfo(ctx, st.unf, eki, msgID) IN
      IF s.err THEN Out(St(eki, msgID, st.fin, st.unf, st.log \o <<"SetMemory">>), FALSE, TRUE)
      ELSE Out(St(eki, msgID, st.fin, s.unf, st.log \o <<"SetMemory", "SaveUnfinalized">>),
               FALSE, FALSE)

(* An end of UpdateEKIfNeeded that forgets to set the key on the           *)
(* instant-finality path.                                                  *)
persistAndSetMemory_NoSet(ctx, st, eki, msgID, finalized) ==
  IF finalized
    THEN LET s == saveFinalizedEnclaveKeyInfo(ctx, st.fin, eki) IN
      IF s.err THEN Out(st, FALSE, TRUE)
      ELSE Out(St(st.a, st.m, s.fin, st.unf, st.log \o <<"SaveFinalized", "SetMemory">>),
               FALSE, FALSE)
    ELSE LET s == saveUnfinalizedEnclaveKeyInfo(ctx, st.unf, eki, msgID) IN
      IF s.err THEN Out(st, FALSE, TRUE)
      ELSE Out(St(eki, msgID, st.fin, s.unf, st.log \o <<"SaveUnfinalized", "SetMemory">>),
               FALSE, FALSE)

(* An end of UpdateEKIfNeeded that saves every registered key as           *)
(* Unfinalized, finalized or not.                                          *)
persistAndSetMemory_AlwaysUnfinalized(ctx, st, eki, msgID, finalized) ==
  LET s == saveUnfinalizedEnclaveKeyInfo(ctx, st.unf, eki, msgID) IN
  IF s.err THEN Out(st, FALSE, TRUE)
  ELSE Out(St(eki, msgID, st.fin, s.unf, st.log \o <<"SaveUnfinalized", "SetMemory">>),
           FALSE, FALSE)

(* The end of UpdateEKIfNeeded: persist the registered key, then set       *)
(* memory.  st is the state after clearMemory.                             *)
persistAndSetMemory(ctx, st, eki, msgID, finalized) ==
  IF finalized
    THEN LET s == saveFinalizedEnclaveKeyInfo(ctx, st.fin, eki) IN
      IF s.err THEN Out(st, FALSE, TRUE)
      ELSE Out(St(eki, st.m, s.fin, st.unf, st.log \o <<"SaveFinalized", "SetMemory">>),
               FALSE, FALSE)
    ELSE LET s == saveUnfinalizedEnclaveKeyInfo(ctx, st.unf, eki, msgID) IN
      IF s.err THEN Out(st, FALSE, TRUE)
      ELSE Out(St(eki, msgID, st.fin, s.unf, st.log \o <<"SaveUnfinalized", "SetMemory">>),
               FALSE, FALSE)

(* A rest of UpdateEKIfNeeded that does not look at the status of the      *)
(* message it submitted.                                                   *)
selectAndRegister_IgnoreStatus(ctx, st) ==
  LET st0 == clearMemory(st)
      logged(ev) == St(st0.a, st0.m, st0.fin, st0.unf, st0.log \o ev)
      sel == selectNewEnclaveKey(ctx)
  IN IF sel.err THEN Res(logged(<<"SelectFailed">>), msgs, TRUE)
     ELSE LET reg == registerEnclaveKey(ctx, st0.unf, sel.eki)
              sent == <<"Select">>
                        \o (IF reg.opsig THEN <<"OperatorSignature">> ELSE <<>>)
                        \o (IF reg.sent THEN <<"SendMsgs">> ELSE <<>>)
       IN IF reg.err THEN Res(logged(sent), msgs, TRUE)
       ELSE LET chain == [msgs EXCEPT ![reg.msgID] = NewMsgResult(ctx)]
                c == checkMsgStatus(ctx, chain, reg.msgID)
                st1 == logged(sent)
                o == persistAndSetMemory(ctx, st1, sel.eki, reg.msgID, c.finalized)
         IN Res(o.st, chain, o.err)

(* The rest of UpdateEKIfNeeded once an update is needed: clear memory,    *)
(* select, register, look the message up, persist, set memory.             *)
selectAndRegister(ctx, st) ==
  LET st0 == clearMemory(st)
      logged(ev) == St(st0.a, st0.m, st0.fin, st0.unf, st0.log \o ev)
      sel == selectNewEnclaveKey(ctx)
  IN IF sel.err THEN Res(logged(<<"SelectFailed">>), msgs, TRUE)
     ELSE LET reg == registerEnclaveKey(ctx, st0.unf, sel.eki)
              sent == <<"Select">>
                        \o (IF reg.opsig THEN <<"OperatorSignature">> ELSE <<>>)
                        \o (IF reg.sent THEN <<"SendMsgs">> ELSE <<>>)
       IN IF reg.err THEN Res(logged(sent), msgs, TRUE)
       ELSE LET chain == [msgs EXCEPT ![reg.msgID] = NewMsgResult(ctx)]
                c == checkMsgStatus(ctx, chain, reg.msgID)
                st1 == logged(sent)
         IN IF c.err \/ ~c.success THEN Res(st1, chain, TRUE)
            ELSE LET o == persistAndSetMemory(ctx, st1, sel.eki, reg.msgID, c.finalized)
              IN Res(o.st, chain, o.err)

(* UpdateEKIfNeeded, given the record LoadLastFinalized answers with. *)
UpdateEKIfNeededResult(ctx, last) ==
  LET o == loadEKIAndCheckUpdateNeeded(ctx, last) IN
  IF o.err THEN Res(o.st, msgs, TRUE)
  ELSE IF ~o.need THEN Res(o.st, msgs, FALSE)
  ELSE selectAndRegister(ctx, o.st)

(* The chain's results of the messages the prover still holds an id of;    *)
(* the others are never looked up again.                                   *)
Held(st, id) == st.m = id \/ (\E r \in st.unf : r.msgID = id)
Forget(st, chain) == [id \in MsgIDs |-> IF Held(st, id) THEN chain[id] ELSE NoMsg]

----------------------------------------------------------------------------
(* Actions *)

Init ==
  /\ activeEnclaveKey = Nil
  /\ unfinalizedMsgID = Nil
  /\ finalizedDB = {}
  /\ unfinalizedDB = {}
  /\ now = 0
  /\ lcpKeys = {}
  /\ latestHeight = 1
  /\ lfHeight = 0
  /\ msgs = [id \in MsgIDs |-> NoMsg]
  /\ operatorCfg = [enabled |-> FALSE, operators |-> {}]
  /\ fault = "none"
  /\ ret = "idle"
  /\ log = <<>>
  /\ forwarded = <<>>
  /\ enclaveKeys = [key \in ClientKeys |-> NotStored]
  /\ clientMsg = NoClientMsg
  /\ csLatestHeight = 0
  /\ consensusStates = [h \in ClientHeights |-> NoConsensusState]
  /\ blockTime = 0
  /\ created = NoClientState
  /\ elcClients = {}

(* One call of UpdateEKIfNeeded (EnsureActiveKey), made when no call is in  *)
(* progress.  fault records the fault the call met if it changed what the  *)
(* call did, "none" if the call went as it does without a fault.           *)
UpdateEKIfNeeded ==
  /\ ret = "idle"
  /\ \E last \in LastFinalized(finalizedDB) :
       \E r0 \in {UpdateEKIfNeededResult("none", last)} :
         \E ctx \in Faults : \E r \in {UpdateEKIfNeededResult(ctx, last)} :
           /\ activeEnclaveKey' = r.st.a
           /\ unfinalizedMsgID' = r.st.m
           /\ finalizedDB' = r.st.fin
           /\ unfinalizedDB' = r.st.unf
           /\ msgs' = Forget(r.st, r.msgs)
           /\ fault' = IF r = r0 THEN "none" ELSE ctx
           /\ ret' = IF r.err THEN "err" ELSE "ok"
           /\ log' = r.st.log
           /\ forwarded' = <<>>
           /\ UNCHANGED <<now, lcpKeys, latestHeight, lfHeight, operatorCfg, clientVars, created, elcClients>>

(* The call returns to its caller: what it did is history. *)
Return ==
  /\ ret # "idle"
  /\ ret' = "idle" /\ log' = <<>> /\ fault' = "none" /\ forwarded' = <<>>
  /\ UNCHANGED <<activeEnclaveKey, unfinalizedMsgID, finalizedDB, unfinalizedDB,
                 now, lcpKeys, latestHeight, lfHeight, msgs, operatorCfg, clientVars, created, elcClients>>

(* The environment moves between two calls. *)
Idle == ret = "idle" /\ UNCHANGED <<fault, ret, log, forwarded>>

(* The process restarts: memory is lost, the store is kept. *)
Restart ==
  /\ activeEnclaveKey # Nil
  /\ activeEnclaveKey' = Nil
  /\ unfinalizedMsgID' = Nil
  /\ Idle
  /\ UNCHANGED <<finalizedDB, unfinalizedDB, now, lcpKeys, latestHeight, lfHeight, msgs, operatorCfg, clientVars, created, elcClients>>

(* The clock advances. *)
Tick ==
  /\ now < MaxNow
  /\ now' = now + 1
  /\ Idle
  /\ UNCHANGED <<activeEnclaveKey, unfinalizedMsgID, finalizedDB, unfinalizedDB,
                 lcpKeys, latestHeight, lfHeight, msgs, operatorCfg, clientVars, created, elcClients>>

(* The LCP service gains or loses a key. *)
LCPChange ==
  \E k \in OfferedKeys :
    /\ lcpKeys' = IF k \in lcpKeys THEN lcpKeys \ {k} ELSE lcpKeys \cup {k}
    /\ Cardinality(lcpKeys') <= MaxKeys
    /\ Idle
    /\ UNCHANGED <<activeEnclaveKey, unfinalizedMsgID, finalizedDB, unfinalizedDB,
                   now, latestHeight, lfHeight, msgs, operatorCfg, clientVars, created, elcClients>>

(* The destination chain produces a block. *)
NewBlock ==
  /\ latestHeight < MaxHeight
  /\ latestHeight' = latestHeight + 1
  /\ Idle
  /\ UNCHANGED <<activeEnclaveKey, unfinalizedMsgID, finalizedDB, unfinalizedDB,
                 now, lcpKeys, lfHeight, msgs, operatorCfg, clientVars, created, elcClients>>

(* The destination chain finalizes a block. *)
Finalize ==
  /\ lfHeight < latestHeight
  /\ lfHeight' = lfHeight + 1
  /\ Idle
  /\ UNCHANGED <<activeEnclaveKey, unfinalizedMsgID, finalizedDB, unfinalizedDB,
                 now, lcpKeys, latestHeight, msgs, operatorCfg, clientVars, created, elcClients>>

(* The fate of a message the prover holds the id of changes: a reorg drops *)
(* it, or it is included in a block that is not finalized, executed with   *)
(* or without success.                                                     *)
MsgChange ==
  \E id \in MsgIDs : \E res \in MsgResults(latestHeight) \ {msgs[id]} :
    /\ Held(St(activeEnclaveKey, unfinalizedMsgID, finalizedDB, unfinalizedDB, <<>>), id)
    /\ msgs[id].height <= lfHeight => msgs[id].status = "notfound"
    /\ res.status # "notfound" => res.height > lfHeight
    /\ msgs' = [msgs EXCEPT ![id] = res]
    /\ Idle
    /\ UNCHANGED <<activeEnclaveKey, unfinalizedMsgID, finalizedDB, unfinalizedDB,
                   now, lcpKeys, latestHeight, lfHeight, operatorCfg, clientVars, created, elcClients>>

Next ==
  \/ UpdateEKIfNeeded
  \/ Return
  \/ Restart
  \/ Tick
  \/ LCPChange
  \/ NewBlock
  \/ Finalize
  \/ MsgChange

Spec == Init /\ [][Next]_vars

----------------------------------------------------------------------------
(* Selection and registration over every configuration: the prover starts  *)
(* with empty memory and an empty store against an LCP service that holds  *)
(* any keys of the table, at any time, with operator co-signing enabled or *)
(* not and any operator set in the client state.                           *)

OperatorCfgs == [enabled : BOOLEAN, operators : {{}, {Operator}, {"opB"}}]

InitSelect ==
  /\ activeEnclaveKey = Nil
  /\ unfinalizedMsgID = Nil
  /\ finalizedDB = {}
  /\ unfinalizedDB = {}
  /\ now \in 0..MaxNow
  /\ lcpKeys \in {S \in SUBSET KeyAddrs : Cardinality(S) <= MaxCandidates}
  /\ latestHeight = 1
  /\ lfHeight \in {0, 1}
  /\ msgs = [id \in MsgIDs |-> NoMsg]
  /\ operatorCfg \in OperatorCfgs
  /\ fault = "none"
  /\ ret = "idle"
  /\ log = <<>>
  /\ forwarded = <<>>
  /\ enclaveKeys = [key \in ClientKeys |-> NotStored]
  /\ clientMsg = NoClientMsg
  /\ csLatestHeight = 0
  /\ consensusStates = [h \in ClientHeights |-> NoConsensusState]
  /\ blockTime = 0
  /\ created = NoClientState
  /\ elcClients = {}

NextSelect ==
  \/ UpdateEKIfNeeded
  \/ Return
  \/ Restart
  \/ Tick

SpecSelect == InitSelect /\ [][NextSelect]_vars

----------------------------------------------------------------------------
(* The relay operations that use the active key *)

(* A request forwarded to the origin prover, and one sent to the LCP       *)
(* service with an enclave key address as its Signer.                      *)
OriginRequest(op) == [to |-> "origin", op |-> op, signer |-> Nil]
LCPRequest(op, signer) == [to |-> "lcp", op |-> op, signer |-> signer]

(* The ways the loop over the headers can end early: at header at,         *)
(* PackClientMessage fails ("pack", before the request is sent) or         *)
(* UpdateClient or the decoding of its answer fails ("update").            *)
Stops(n) == {[at |-> 0, kind |-> "none"]} \cup [at : 1..n, kind : {"pack", "update"}]

(* The answers of the origin prover's SetupHeadersForUpdate: an error, or  *)
(* a number of headers.                                                    *)
OriginAnswers ==
  {[err |-> TRUE, headers |-> 0]} \cup [err : {FALSE}, headers : 0..MaxHeaders]

(* A SetupHeadersForUpdate that goes on to the origin prover whatever      *)
(* UpdateEKIfNeeded returned.                                              *)
SetupHeadersResult_IgnoreError(err, a, origin, stop) ==
  LET o == <<OriginRequest("SetupHeadersForUpdate")>>
      updates(n) == [i \in 1..n |-> LCPRequest("UpdateClient", a)]
  IN IF origin.err THEN [ret |-> "err", forwarded |-> o]
     ELSE IF origin.headers = 0 THEN [ret |-> "ok", forwarded |-> o]
     ELSE IF stop.kind = "pack" /\ stop.at = 1 THEN [ret |-> "err", forwarded |-> o]
     ELSE IF a = Nil THEN [ret |-> "panic", forwarded |-> o]
     ELSE IF stop.kind = "pack" THEN [ret |-> "err", forwarded |-> o \o updates(stop.at - 1)]
     ELSE IF stop.kind = "update" THEN [ret |-> "err", forwarded |-> o \o updates(stop.at)]
     ELSE [ret |-> "ok", forwarded |-> o \o updates(origin.headers)]

(* SetupHeadersForUpdate after its call of UpdateEKIfNeeded, which         *)
(* returned err and left a in pr.activeEnclaveKey: origin is the answer of *)
(* the origin prover, stop the way the loop ends.                          *)
SetupHeadersResult(err, a, origin, stop) ==
  LET o == <<OriginRequest("SetupHeadersForUpdate")>>
      updates(n) == [i \in 1..n |-> LCPRequest("UpdateClient", a)]
  IN IF err THEN [ret |-> "err", forwarded |-> <<>>]
     ELSE IF origin.err THEN [ret |-> "err", forwarded |-> o]
     ELSE IF origin.headers = 0 THEN [ret |-> "ok", forwarded |-> o]
     ELSE IF stop.kind = "pack" /\ stop.at = 1 THEN [ret |-> "err", forwarded |-> o]
     ELSE IF a = Nil THEN [ret |-> "panic", forwarded |-> o]
     ELSE IF stop.kind = "pack" THEN [ret |-> "err", forwarded |-> o \o updates(stop.at - 1)]
     ELSE IF stop.kind = "update" THEN [ret |-> "err", forwarded |-> o \o updates(stop.at)]
     ELSE [ret |-> "ok", forwarded |-> o \o updates(origin.headers)]

(* SetupHeadersForUpdate: UpdateEKIfNeeded, then the origin prover's       *)
(* headers, each sent to the LCP service as an UpdateClient request.  The  *)
(* log ends with the outcome of UpdateEKIfNeeded.                          *)
SetupHeadersForUpdate ==
  /\ ret = "idle"
  /\ \E last \in LastFinalized(finalizedDB) :
       \E r0 \in {UpdateEKIfNeededResult("none", last)} :
         \E ctx \in Faults : \E r \in {UpdateEKIfNeededResult(ctx, last)} :
           \E origin \in OriginAnswers : \E stop \in Stops(origin.headers) :
               \E out \in {SetupHeadersResult(r.err, r.st.a, origin, stop)} :
                 /\ r.err => origin.err
                 /\ activeEnclaveKey' = r.st.a
                 /\ unfinalizedMsgID' = r.st.m
                 /\ finalizedDB' = r.st.fin
                 /\ unfinalizedDB' = r.st.unf
                 /\ msgs' = Forget(r.st, r.msgs)
                 /\ fault' = IF r = r0 THEN "none" ELSE ctx
                 /\ ret' = out.ret
                 /\ log' = r.st.log \o <<IF r.err THEN "UpdateEKFailed" ELSE "UpdateEKDone">>
                 /\ forwarded' = out.forwarded
                 /\ UNCHANGED <<now, lcpKeys, latestHeight, lfHeight, operatorCfg, clientVars, created, elcClients>>

(* ProveState, given the answers of the origin prover and of the LCP       *)
(* service ("ok" or "err"): a nil pr.activeEnclaveKey is dereferenced when *)
(* the VerifyMembership request is built.                                  *)
ProveStateResult(a, origin, lcp) ==
  LET o == <<OriginRequest("ProveState")>> IN
  IF origin = "err" THEN [ret |-> "err", forwarded |-> o]
  ELSE IF a = Nil THEN [ret |-> "panic", forwarded |-> o]
  ELSE [ret |-> lcp, forwarded |-> o \o <<LCPRequest("VerifyMembership", a)>>]

ProveState ==
  /\ ret = "idle"
  /\ \E origin \in {"ok", "err"} : \E lcp \in {"ok", "err"} :
       \E out \in {ProveStateResult(activeEnclaveKey, origin, lcp)} :
         /\ ret' = out.ret
         /\ forwarded' = out.forwarded
         /\ UNCHANGED <<activeEnclaveKey, unfinalizedMsgID, finalizedDB, unfinalizedDB,
                        now, lcpKeys, latestHeight, lfHeight, msgs, operatorCfg,
                        fault, log, clientVars, created, elcClients>>

(* The relayer at work: it calls SetupHeadersForUpdate and ProveState in   *)
(* any order on a prover that starts fresh, while the clock, the LCP       *)
(* service and the destination chain move.                                 *)
NextRelay ==
  \/ SetupHeadersForUpdate
  \/ ProveState
  \/ Return
  \/ Restart
  \/ Tick
  \/ LCPChange
  \/ Finalize
  \/ MsgChange

SpecRelay == Init /\ [][NextRelay]_vars

----------------------------------------------------------------------------
(* CreateInitialLightClientState *)

(* The answers of the LCP service's CreateClient: an error, or a client    *)
(* id.                                                                     *)
CreateClientAnswers ==
  {[err |-> TRUE, ClientId |-> ""]} \cup [err : {FALSE}, ClientId : {"lcp-0", "lcp-1"}]

(* The client state built from the configuration. *)
ConfiguredClientState ==
  [nil |-> FALSE, LatestHeight |-> 0, Mrenclave |-> Mrenclave,
   KeyExpiration |-> KeyExpiration,
   AllowedQuoteStatuses |-> AllowedQuoteStatuses,
   AllowedAdvisoryIds |-> AllowedAdvisoryIds]

(* A creation that does not look at the client id the LCP service returns. *)
CreateInitialLightClientStateResult_AnyClientId(ctx, origin, res) ==
  LET sel == selectNewEnclaveKey(ctx)
      o == <<OriginRequest("CreateInitialLightClientState")>>
      c == <<LCPRequest("CreateClient", sel.eki)>>
      fail(fw, lg) == [ret |-> "err", forwarded |-> fw, log |-> lg, created |-> NoClientState]
  IN IF sel.err THEN fail(<<>>, <<"SelectFailed">>)
     ELSE IF origin = "err" THEN fail(o, <<"Select">>)
     ELSE IF res.err THEN fail(o \o c, <<"Select", "CreateClient">>)
     ELSE [ret |-> "ok", forwarded |-> o \o c,
           log |-> <<"Select", "CreateClient", res.ClientId>>,
           created |-> ConfiguredClientState]

(* CreateInitialLightClientState, given the fault in effect, the answer of *)
(* the origin prover ("ok" or "err", packing included) and the answer of   *)
(* CreateClient.                                                           *)
CreateInitialLightClientStateResult(ctx, origin, res) ==
  LET sel == selectNewEnclaveKey(ctx)
      o == <<OriginRequest("CreateInitialLightClientState")>>
      c == <<LCPRequest("CreateClient", sel.eki)>>
      fail(fw, lg) == [ret |-> "err", forwarded |-> fw, log |-> lg, created |-> NoClientState]
  IN IF sel.err THEN fail(<<>>, <<"SelectFailed">>)
     ELSE IF origin = "err" THEN fail(o, <<"Select">>)
     ELSE IF res.err THEN fail(o \o c, <<"Select", "CreateClient">>)
     ELSE IF ElcClientId # res.ClientId
       THEN fail(o \o c, <<"Select", "CreateClient", res.ClientId>>)
     ELSE [ret |-> "ok", forwarded |-> o \o c,
           log |-> <<"Select", "CreateClient", res.ClientId>>,
           created |-> ConfiguredClientState]

(* The prover's memory and store as a call finds them. *)
ProverState == St(activeEnclaveKey, unfinalizedMsgID, finalizedDB, unfinalizedDB, <<>>)

(* A selection for CreateClient that keeps the key it selected as the      *)
(* active key.                                                             *)
selectTemporaryKey_IntoMemory(ctx, st) ==
  LET sel == selectNewEnclaveKey(ctx) IN
  IF sel.err THEN st ELSE St(sel.eki, Nil, st.fin, st.unf, st.log)

(* tmpEKI, err := pr.selectNewEnclaveKey(ctx): what becomes of the prover  *)
(* when CreateInitialLightClientState and createELC select a key.  The key *)
(* is held in a local variable.                                            *)
selectTemporaryKey(ctx, st) == st

(* The clients of the LCP service after a call that sent the requests fw   *)
(* and got the client id of res for a CreateClient that succeeded.         *)
ClientsAfter(clients, fw, res) ==
  IF (\E i \in DOMAIN fw : fw[i].op = "CreateClient") /\ ~res.err
    THEN clients \cup {res.ClientId}
    ELSE clients

CreateInitialLightClientState ==
  /\ ret = "idle"
  /\ \E ctx \in {"none", "list", "probe"} : \E origin \in {"ok", "err"} :
       \E res \in CreateClientAnswers :
         \E out \in {CreateInitialLightClientStateResult(ctx, origin, res)} :
           \E st \in {selectTemporaryKey(ctx, ProverState)} :
             /\ ret' = out.ret
             /\ forwarded' = out.forwarded
             /\ log' = out.log
             /\ created' = out.created
             /\ fault' = IF out = CreateInitialLightClientStateResult("none", origin, res)
                          THEN "none" ELSE ctx
             /\ activeEnclaveKey' = st.a
             /\ unfinalizedMsgID' = st.m
             /\ finalizedDB' = st.fin
             /\ unfinalizedDB' = st.unf
             /\ elcClients' = ClientsAfter(elcClients, out.forwarded, res)
             /\ UNCHANGED <<now, lcpKeys, latestHeight, lfHeight, msgs, operatorCfg,
                            clientVars>>

(* doCreateELC *)

(* The ELC client ids doCreateELC is called with, the heights it is called *)
(* with (0: the latest), and the answers of the origin prover's            *)
(* GetLatestFinalizedHeader: an error, or a header at a height.            *)
ElcClientIds == {"lcp-0", "lcp-1"}
ElcHeights == 0..MaxClientHeight
HeaderAnswers == {[err |-> TRUE, height |-> 0]} \cup [err : {FALSE}, height : ClientHeights]

(* The answers of the LCP service's CreateClient to createELC: an error,   *)
(* or a response whose Message decodes as an UpdateStateProxyMessage or    *)
(* does not.                                                               *)
CreateELCAnswers == [err : BOOLEAN, decodes : BOOLEAN]

(* lcpServiceClient.Client(ClientId): Found says whether the service holds *)
(* the client.                                                             *)
QueryClient(ctx, clients, elcClientID) ==
  IF ctx = "client" THEN [err |-> TRUE, Found |-> FALSE]
  ELSE [err |-> FALSE, Found |-> elcClientID \in clients]

(* The outcome of createELC: res is nil, or the response of CreateClient.  *)
ELCOut(err, nil, fw, lg) == [err |-> err, nil |-> nil, forwarded |-> fw, log |-> lg]

(* A createELC that does not ask the LCP service whether the client        *)
(* exists.                                                                 *)
createELC_NoQuery(ctx, clients, elcClientID, origin, res) ==
  LET sel == selectNewEnclaveKey(ctx)
      o == <<OriginRequest("CreateInitialLightClientState")>>
      c == <<LCPRequest("CreateClient", sel.eki)>>
  IN IF sel.err THEN ELCOut(TRUE, TRUE, <<>>, <<"SelectFailed">>)
     ELSE IF origin = "err" THEN ELCOut(TRUE, TRUE, o, <<"Select">>)
     ELSE ELCOut(res.err, res.err, o \o c, <<"Select", "CreateClient">>)

(* createELC, given the fault in effect, the clients the LCP service       *)
(* holds, the answer of the origin prover ("ok" or "err", packing          *)
(* included) and the answer of CreateClient.                               *)
createELC(ctx, clients, elcClientID, origin, res) ==
  LET q == QueryClient(ctx, clients, elcClientID)
      sel == selectNewEnclaveKey(ctx)
      k == <<LCPRequest("Client", Nil)>>
      o == <<OriginRequest("CreateInitialLightClientState")>>
      c == <<LCPRequest("CreateClient", sel.eki)>>
  IN IF q.err THEN ELCOut(TRUE, TRUE, k, <<"Client">>)
     ELSE IF q.Found THEN ELCOut(FALSE, TRUE, k, <<"Client">>)
     ELSE IF sel.err THEN ELCOut(TRUE, TRUE, k, <<"Client", "SelectFailed">>)
     ELSE IF origin = "err" THEN ELCOut(TRUE, TRUE, k \o o, <<"Client", "Select">>)
     ELSE ELCOut(res.err, res.err, k \o o \o c, <<"Client", "Select", "CreateClient">>)

(* doCreateELC(elcClientID, height), given the answer of                   *)
(* GetLatestFinalizedHeader.  The last entry of log is the Created field   *)
(* of the result when the call returns one.                                *)
doCreateELCResult(ctx, clients, elcClientID, height, header, origin, res) ==
  LET h == <<OriginRequest("GetLatestFinalizedHeader")>>
      g == <<"GetLatestFinalizedHeader">>
      out(r, fw, lg) == [ret |-> r, forwarded |-> fw, log |-> lg]
  IN IF header.err THEN out("err", h, g)
     ELSE IF height # 0 /\ height >= header.height THEN out("err", h, g)
     ELSE LET e == createELC(ctx, clients, elcClientID, origin, res) IN
       IF e.err THEN out("err", h \o e.forwarded, g \o e.log)
       ELSE IF e.nil THEN out("ok", h \o e.forwarded, g \o e.log \o <<"NotCreated">>)
       ELSE IF ~res.decodes THEN out("err", h \o e.forwarded, g \o e.log)
       ELSE out("ok", h \o e.forwarded, g \o e.log \o <<"Created">>)

DoCreateELC ==
  /\ ret = "idle"
  /\ \E ctx \in {"none", "list", "probe", "client"} :
       \E elcClientID \in ElcClientIds : \E height \in ElcHeights :
         \E header \in HeaderAnswers : \E origin \in {"ok", "err"} :
           \E res \in CreateELCAnswers :
             \E out \in {doCreateELCResult(ctx, elcClients, elcClientID, height,
                                           header, origin, res)} :
               \E st \in {selectTemporaryKey(ctx, ProverState)} :
                 /\ ret' = out.ret
                 /\ forwarded' = out.forwarded
                 /\ log' = out.log \o <<elcClientID>>
                 /\ fault' = IF out = doCreateELCResult("none", elcClients, elcClientID,
                                                       height, header, origin, res)
                              THEN "none" ELSE ctx
                 /\ activeEnclaveKey' = st.a
                 /\ unfinalizedMsgID' = st.m
                 /\ finalizedDB' = st.fin
                 /\ unfinalizedDB' = st.unf
                 /\ elcClients' = ClientsAfter(elcClients, out.forwarded,
                                               [err |-> res.err, ClientId |-> elcClientID])
                 /\ UNCHANGED <<now, lcpKeys, latestHeight, lfHeight, msgs, operatorCfg,
                                clientVars, created>>

(* The client is created against an LCP service that holds any keys of the *)
(* table, at any time.                                                     *)
NextCreate ==
  \/ CreateInitialLightClientState
  \/ Return
  \/ Tick

SpecCreate == InitSelect /\ [][NextCreate]_vars


----------------------------------------------------------------------------
(* The LCP client on the destination chain handling                        *)
(* RegisterEnclaveKeyMessages.                                             *)

UnixSeconds(t) == t \div InstantsPerSecond        \* t.Unix()
UnixTime(sec) == sec * InstantsPerSecond          \* time.Unix(sec, 0)

getKeyExpiration == KeyExpiration * InstantsPerSecond

Contains(clientStore, key) == clientStore[key] # NotStored

GetEnclaveKeyExpiredAt(clientStore, key) ==
  IF ~Contains(clientStore, key) THEN [found |-> FALSE, e |-> 0]
  ELSE [found |-> TRUE, e |-> UnixTime(clientStore[key])]

AddEnclaveKey(clientStore, key, expiredAt) ==
  [clientStore EXCEPT ![key] = UnixSeconds(expiredAt)]

isAllowedStatus(status) ==
  IF status = QuoteOK THEN TRUE ELSE status \in AllowedQuoteStatuses

isAllowedAdvisoryIDs(advIDs) ==
  IF advIDs = {} THEN TRUE ELSE advIDs \subseteq AllowedAdvisoryIds

(* The checks of verifyRegisterEnclaveKey that come before the lookup of   *)
(* the key in the store: TRUE when one of them returns an error.           *)
(* verifyQuoteStatus is the one on quote status and advisory ids.          *)
verifyQuoteStatus(quoteStatus, advisoryIDs) ==
  IF quoteStatus = QuoteOK THEN advisoryIDs # {}
  ELSE \/ ~isAllowedStatus(quoteStatus)
       \/ ~isAllowedAdvisoryIDs(advisoryIDs)

verifyReportAndPolicy(message) ==
  \/ ~message.verifies
  \/ ~message.validAVR
  \/ verifyQuoteStatus(message.status, message.advisories)
  \/ message.mrenclave # ClientStateMrenclave

(* ClientState.verifyRegisterEnclaveKey: TRUE when it returns an error. *)
verifyRegisterEnclaveKey(clientStore, message) ==
  \/ verifyReportAndPolicy(message)
  \/ LET expiredAt == message.timestamp + getKeyExpiration
         stored == GetEnclaveKeyExpiredAt(clientStore, message.addr)
     IN stored.found /\ stored.e # expiredAt

(* ClientState.registerEnclaveKey: the client store it leaves. *)
ClientState_registerEnclaveKey(clientStore, message) ==
  LET expiredAt == message.timestamp + getKeyExpiration IN
  IF Contains(clientStore, message.addr) THEN clientStore
  ELSE AddEnclaveKey(clientStore, message.addr, expiredAt)

(* The client handles one RegisterEnclaveKeyMessage: VerifyClientMessage,  *)
(* and UpdateState if that returned no error.                              *)
RegisterEnclaveKeyMessage ==
  \E message \in Reports :
    \E err \in {verifyRegisterEnclaveKey(enclaveKeys, message)} :
      /\ enclaveKeys' = IF err THEN enclaveKeys
                        ELSE ClientState_registerEnclaveKey(enclaveKeys, message)
      /\ clientMsg' = [kind |-> "register", handled |-> TRUE, err |-> err,
                       before |-> enclaveKeys[message.addr], message |-> message]
      /\ UNCHANGED <<activeEnclaveKey, unfinalizedMsgID, finalizedDB, unfinalizedDB,
                     now, lcpKeys, latestHeight, lfHeight, msgs, operatorCfg,
                     fault, ret, log, forwarded, csLatestHeight,
                     consensusStates, blockTime, created, elcClients>>

NextClient == RegisterEnclaveKeyMessage

(* A key that still counts at the very instant it expires. *)
IsActiveKey_AtExpiry(blockTimeNow, clientStore, key) ==
  IF ~Contains(clientStore, key) THEN FALSE
  ELSE UnixTime(clientStore[key]) >= blockTimeNow

(* ClientState.IsActiveKey: the key is stored and its expiration is after  *)
(* the block time.                                                         *)
IsActiveKey(blockTimeNow, clientStore, key) ==
  IF ~Contains(clientStore, key) THEN FALSE
  ELSE After(UnixTime(clientStore[key]), blockTimeNow)

(* GetConsensusState: the consensus state stored at height, or an error. *)
GetConsensusState(store, height) ==
  IF store[height] = NoConsensusState THEN [err |-> TRUE, cons |-> NoConsensusState]
  ELSE [err |-> FALSE, cons |-> store[height]]

(* ClientState.verifyUpdateClient: TRUE when it returns an error. *)
verifyUpdateClient(latest, store, clientStore, blockTimeNow, message) ==
  \/ message.defect = "elc"
  \/ IF latest = 0 THEN message.defect = "empty"
     ELSE \/ message.PrevHeight = 0 \/ message.PrevStateID = ""
          \/ GetConsensusState(store, message.PrevHeight).err
          \/ GetConsensusState(store, message.PrevHeight).cons.StateId # message.PrevStateID
  \/ ~IsActiveKey(blockTimeNow, clientStore, message.signer)
  \/ message.defect = "signature"
  \/ message.defect = "context"

(* An update that sets the latest height to the post height, higher or     *)
(* not.                                                                    *)
updateClient_AlwaysSetHeight(latest, store, message) ==
  [latest |-> message.PostHeight,
   store |-> [store EXCEPT ![message.PostHeight] =
                [StateId |-> message.PostStateID, Timestamp |-> ELCTimestamp(message)]]]

(* ClientState.updateClient: the latest height and the consensus states it *)
(* leaves.                                                                 *)
updateClient(latest, store, message) ==
  [latest |-> IF latest < message.PostHeight THEN message.PostHeight ELSE latest,
   store |-> [store EXCEPT ![message.PostHeight] =
                [StateId |-> message.PostStateID, Timestamp |-> ELCTimestamp(message)]]]

(* The client handles one UpdateClientMessage: VerifyClientMessage, and    *)
(* UpdateState if that returned no error.  before is the stored expiration *)
(* of the signer, at the block time of the handling.                       *)
UpdateClientMessage ==
  \E message \in UpdateClientMessages :
    \E err \in {verifyUpdateClient(csLatestHeight, consensusStates, enclaveKeys,
                                   blockTime, message)} :
      \E u \in {updateClient(csLatestHeight, consensusStates, message)} :
        /\ csLatestHeight' = IF err THEN csLatestHeight ELSE u.latest
        /\ consensusStates' = IF err THEN consensusStates ELSE u.store
        /\ clientMsg' = [kind |-> "update", handled |-> TRUE, err |-> err,
                         before |-> enclaveKeys[message.signer], at |-> blockTime,
                         message |-> [signer |-> message.signer,
                                      PostHeight |-> message.PostHeight,
                                      PostStateID |-> message.PostStateID]]
        /\ UNCHANGED <<activeEnclaveKey, unfinalizedMsgID, finalizedDB, unfinalizedDB,
                       now, lcpKeys, latestHeight, lfHeight, msgs, operatorCfg,
                       fault, ret, log, forwarded, enclaveKeys, blockTime, created, elcClients>>

(* The destination chain produces a block: the block time advances. *)
NextBlock ==
  /\ blockTime < MaxBlockTime
  /\ blockTime' = blockTime + 1
  /\ UNCHANGED <<activeEnclaveKey, unfinalizedMsgID, finalizedDB, unfinalizedDB,
                 now, lcpKeys, latestHeight, lfHeight, msgs, operatorCfg,
                 fault, ret, log, forwarded, enclaveKeys, clientMsg,
                 csLatestHeight, consensusStates, created, elcClients>>

(* The LCP client on the destination chain at work: it is handed client    *)
(* messages of both kinds in any order while block time advances.          *)
NextLightClient ==
  \/ RegisterEnclaveKeyMessage
  \/ UpdateClientMessage
  \/ NextBlock

SpecLightClient == Init /\ [][NextLightClient]_vars

SpecClient == Init /\ [][NextClient]_vars


----------------------------------------------------------------------------
(* Vocabulary of the properties *)

Returned == ret # "idle"
ReturnedOK == ret = "ok"

Seen(ev, lg) == \E i \in 1..Len(lg) : lg[i] = ev

(* The store writes of a call. *)
StoreWrites == {"SaveFinalized", "SaveUnfinalized", "RemoveUnfinalized"}
Writes(lg) == {lg[i] : i \in 1..Len(lg)} \cap StoreWrites

(* The Policy Engine's checks of a key at time t. *)
MrenclaveMatches(k) == EKI[k].MRENCLAVE = Mrenclave
OKHasNoAdvisory(k) == EKI[k].ISVEnclaveQuoteStatus = QuoteOK => EKI[k].AdvisoryIDs = {}
StatusAllowed(k) ==
  EKI[k].ISVEnclaveQuoteStatus # QuoteOK => EKI[k].ISVEnclaveQuoteStatus \in AllowedQuoteStatuses
AdvisoriesAllowed(k) == EKI[k].AdvisoryIDs \subseteq AllowedAdvisoryIds
HalfLife(k) == TimeUnix(EKI[k].AttestationTime) + (KeyExpiration * Second) \div 2
NotPastHalfLife(k, t) == t <= HalfLife(k)
IsUsable(k, t) ==
  /\ MrenclaveMatches(k)
  /\ OKHasNoAdvisory(k)
  /\ StatusAllowed(k)
  /\ AdvisoriesAllowed(k)
  /\ NotPastHalfLife(k, t)

----------------------------------------------------------------------------
(* C1: whenever UpdateEKIfNeeded returns OK at time now, the active key    *)
(* passes every check of the Policy Engine against now (MRENCLAVE, status  *)
(* OK implies no advisory id, a status other than OK is allowed, every     *)
(* advisory id is allowed, now is not past half of the expiration).        *)
C1_ActiveKeyUsable ==
  (ReturnedOK /\ activeEnclaveKey # Nil) => IsUsable(activeEnclaveKey, now)

(* What the next call of UpdateEKIfNeeded does from the current state when *)
(* it meets fault ctx and LoadLastFinalized answers with last.             *)
NextCall(ctx, last) == UpdateEKIfNeededResult(ctx, last)
Lasts == LastFinalized(finalizedDB)

(* A step that is a call of UpdateEKIfNeeded. *)
CallStep == ret' # "idle"

C3_MsgIDImpliesKey == unfinalizedMsgID # Nil => activeEnclaveKey # Nil

(* A call returned an error part-way and left a message id in memory. *)
C3_Witness == ret = "err" /\ unfinalizedMsgID # Nil /\ Seen("SaveFinalized", log)

(* C4: a rotating call clears memory, selects, registers, persists and     *)
(* sets memory in this order, and the key in memory always has a record in *)
(* the store: the record the rotation wrote, when the call set memory.     *)
Pos(ev, lg) == CHOOSE i \in 1..Len(lg) : lg[i] = ev
InOrder(e1, e2, lg) == (Seen(e1, lg) /\ Seen(e2, lg)) => Pos(e1, lg) < Pos(e2, lg)
OnDisk(k) == k \in finalizedDB \/ (\E r \in unfinalizedDB : r.eki = k)
C4_PersistBeforeSet ==
  /\ InOrder("ClearMemory", "Select", log)
  /\ InOrder("ClearMemory", "SelectFailed", log)
  /\ InOrder("Select", "SendMsgs", log)
  /\ Seen("ClearMemory", log) => InOrder("SendMsgs", "SaveFinalized", log)
  /\ InOrder("SendMsgs", "SaveUnfinalized", log)
  /\ Seen("ClearMemory", log) => InOrder("SaveFinalized", "SetMemory", log)
  /\ InOrder("SaveUnfinalized", "SetMemory", log)
  /\ Seen("SetMemory", log) =>
       /\ Seen("ClearMemory", log) /\ Seen("Select", log) /\ Seen("SendMsgs", log)
       /\ Seen("SaveFinalized", log) \/ Seen("SaveUnfinalized", log)
       /\ IF unfinalizedMsgID = Nil
            THEN activeEnclaveKey \in finalizedDB
            ELSE [eki |-> activeEnclaveKey, msgID |-> unfinalizedMsgID] \in unfinalizedDB
  /\ activeEnclaveKey # Nil => OnDisk(activeEnclaveKey)

(* A rotating call went through all five steps. *)
C4_Witness ==
  /\ ret = "ok"
  /\ log = <<"ClearMemory", "Select", "SendMsgs", "SaveUnfinalized", "SetMemory">>

(* C5 as stated: at a call with an unfinalized key in memory whose         *)
(* registration message is not found, or found but failed, the call        *)
(* removes the unfinalized record, clears memory and goes on to select a   *)
(* new candidate.                                                          *)
InFlightLost ==
  /\ activeEnclaveKey # Nil
  /\ unfinalizedMsgID # Nil
  /\ GetMsgResult(msgs, unfinalizedMsgID).status \in {"notfound", "failed"}
DroppedAndReselected(lg) ==
  /\ Seen("RemoveUnfinalized", lg)
  /\ Seen("ClearMemory", lg)
  /\ Seen("Select", lg) \/ Seen("SelectFailed", lg)
C5_Original ==
  [][(InFlightLost /\ CallStep) => DroppedAndReselected(log')]_vars

(* C5: with an unfinalized key in memory whose registration message is not *)
(* found, or found but failed, the next call removes the unfinalized       *)
(* record, clears memory and goes on to select a new candidate, and leaves *)
(* memory and the unfinalized store empty if it then fails, provided that  *)
(* RemoveUnfinalized succeeds and, for a failed message, that the latest   *)
(* finalized header can be fetched; otherwise the call returns the error   *)
(* and leaves memory and store as they were.                               *)
C5_LostMessageRotates ==
  InFlightLost =>
    \A ctx \in Faults : \A last \in Lasts :
      LET r == NextCall(ctx, last)
          failed == GetMsgResult(msgs, unfinalizedMsgID).status = "failed"
          blocked == ctx = "remove" \/ (failed /\ ctx = "lfheader")
      IN IF blocked
           THEN /\ r.err
                /\ r.st = St(activeEnclaveKey, unfinalizedMsgID, finalizedDB,
                             unfinalizedDB, <<>>)
           ELSE /\ DroppedAndReselected(r.st.log)
                /\ Pos("RemoveUnfinalized", r.st.log) < Pos("ClearMemory", r.st.log)
                /\ r.err => /\ r.st.a = Nil /\ r.st.m = Nil
                            /\ r.st.unf = {} /\ r.st.fin = finalizedDB
                /\ ~r.err => Seen("SendMsgs", r.st.log) /\ Seen("SetMemory", r.st.log)

(* A call dropped the record of a lost message and registered a new key. *)
C5_Witness ==
  /\ ret = "ok"
  /\ log = <<"RemoveUnfinalized", "ClearMemory", "Select", "SendMsgs",
             "SaveUnfinalized", "SetMemory">>

(* C6: a call that returns OK leaves a key in memory. *)
C6_OKImpliesKey == ReturnedOK => activeEnclaveKey # Nil

(* OK was returned on each of the four paths: key in memory, key loaded,   *)
(* key promoted, key freshly registered.                                   *)
C6_WitnessInMemory == ret = "ok" /\ log = <<>> /\ activeEnclaveKey # Nil
C6_WitnessLoaded == ret = "ok" /\ log = <<"LoadFinalized">>
C6_WitnessPromoted ==
  ret = "ok" /\ log = <<"LoadUnfinalized", "SaveFinalized", "RemoveUnfinalized">>
C6_Witness ==
  /\ ret = "ok"
  /\ log = <<"ClearMemory", "Select", "SendMsgs", "SaveFinalized", "SetMemory">>

(* A call that left memory and store alone and did nothing. *)
Untouched(st) ==
  st = St(activeEnclaveKey, unfinalizedMsgID, finalizedDB, unfinalizedDB, <<>>)

(* C7 as stated: after any call, a second call with the clock, the LCP     *)
(* service, the destination chain and the fault unchanged performs no      *)
(* store write.                                                            *)
SecondCallWrites == UNION {Writes(NextCall(fault, last).st.log) : last \in Lasts}
C7_Original == Returned => SecondCallWrites = {}

(* C7: after a call that returned OK, a second call with the clock, the    *)
(* LCP service and the destination chain unchanged performs no store       *)
(* write, whichever fault it meets; without a fault it returns OK and      *)
(* leaves memory and store as they are.                                    *)
C7_SecondCallWritesNothing ==
  ReturnedOK =>
    \A last \in Lasts :
      /\ \A ctx \in Faults : Writes(NextCall(ctx, last).st.log) = {}
      /\ ~NextCall("none", last).err
      /\ Untouched(NextCall("none", last).st)

(* A call wrote to the store and returned OK, and a second call from there *)
(* returns OK having done nothing.                                         *)
C7_Witness ==
  /\ ret = "ok"
  /\ Seen("RemoveUnfinalized", log) /\ Seen("SaveUnfinalized", log)
  /\ \A last \in Lasts : Untouched(NextCall("none", last).st) /\ ~NextCall("none", last).err

(* C8: a call that starts with empty memory loads the unfinalized record   *)
(* if there is one, in preference to any finalized record, and sets memory *)
(* to exactly its (eki, msgID); otherwise the last finalized record with   *)
(* no message id; only if neither exists it reports that a new key is      *)
(* needed.  A load error other than NotFound is returned without rotating  *)
(* and without touching memory or store.                                   *)
C8_LoadOrder ==
  activeEnclaveKey = Nil =>
    \A ctx \in Faults : \A last \in Lasts :
      LET l == loadIntoMemory(ctx, last)
          st == l.out.st
          r == NextCall(ctx, last)
      IN IF ctx = "load" \/ (ctx = "loadfin" /\ unfinalizedDB = {})
           THEN /\ l.done /\ l.out.err /\ ~l.out.need
                /\ r.err /\ Untouched(r.st)
         ELSE IF unfinalizedDB # {}
           THEN /\ ~l.done
                /\ [eki |-> st.a, msgID |-> st.m] \in unfinalizedDB
                /\ st.log = <<"LoadUnfinalized">>
         ELSE IF finalizedDB # {}
           THEN /\ ~l.done
                /\ st.a \in finalizedDB /\ st.m = Nil
                /\ \A k \in finalizedDB :
                     EKI[k].AttestationTime <= EKI[st.a].AttestationTime
                /\ st.log = <<"LoadFinalized">>
         ELSE /\ l.done /\ l.out.need /\ ~l.out.err
              /\ Untouched(st)
              /\ Seen("ClearMemory", r.st.log)

(* After a restart a call loaded the unfinalized record, though the store  *)
(* also holds finalized records, and memory is exactly that record.        *)
C8_Witness ==
  /\ ret = "ok" /\ log = <<"LoadUnfinalized">>
  /\ finalizedDB # {}
  /\ unfinalizedDB = {[eki |-> activeEnclaveKey, msgID |-> unfinalizedMsgID]}

(* A call loaded the last finalized record. *)
C8_WitnessFinalized ==
  /\ ret = "ok" /\ log = <<"LoadFinalized">>
  /\ Cardinality(finalizedDB) > 1 /\ unfinalizedMsgID = Nil

(* A call met a load error and returned it. *)
C8_WitnessLoadError ==
  /\ ret = "err" /\ log = <<>> /\ fault \in {"load", "loadfin"}
  /\ activeEnclaveKey = Nil /\ finalizedDB # {}

(* C9 as stated: no call writes an Unfinalized record for a key that       *)
(* already has a Finalized record.                                         *)
C9_Original ==
  [][(CallStep /\ Seen("SaveUnfinalized", log')) =>
       \A r \in unfinalizedDB' : r.eki \notin finalizedDB]_vars

(* C10 as stated: with a finalized key in memory that the LCP service      *)
(* knows, a call rotates when now is the attestation time plus half the    *)
(* key expiration exactly, and does not rotate one second earlier.         *)
FinalizedKnown(k) ==
  /\ k # Nil /\ activeEnclaveKey = k /\ unfinalizedMsgID = Nil
  /\ k \in finalizedDB /\ k \in lcpKeys
Rotates(lg) == Seen("ClearMemory", lg)
C10_Original ==
  [][\A k \in KeyAddrs :
       (FinalizedKnown(k) /\ CallStep /\ fault' # "probe") =>
         /\ now = HalfLife(k) => Rotates(log')
         /\ now = HalfLife(k) - Second => ~Rotates(log')]_vars

(* C10: with a finalized key in memory that the LCP service knows, the     *)
(* next call rotates when now is one second past the attestation time plus *)
(* half the key expiration, and does not rotate, and returns OK with the   *)
(* key kept, when now is exactly that time or one second earlier.          *)
C10_RotationBoundary ==
  \A k \in KeyAddrs : FinalizedKnown(k) =>
    \A ctx \in Faults \ {"probe"} : \A last \in Lasts :
      LET r == NextCall(ctx, last)
          kept == ~r.err /\ r.st.a = k /\ r.st.m = Nil /\ r.st.log = <<>>
      IN /\ now = HalfLife(k) + Second => Rotates(r.st.log)
         /\ now = HalfLife(k) => kept
         /\ now = HalfLife(k) - Second => kept

(* A call at exactly the half of the expiration kept the key. *)
C10_Witness ==
  /\ ret = "ok" /\ log = <<>> /\ fault # "probe"
  /\ FinalizedKnown(activeEnclaveKey)
  /\ now = HalfLife(activeEnclaveKey)

(* A call one second later rotated. *)
C10_WitnessRotated ==
  /\ ret = "ok" /\ Rotates(log) /\ Seen("LoadFinalized", log)
  /\ \E k \in finalizedDB : k \in lcpKeys /\ now = HalfLife(k) + Second

----------------------------------------------------------------------------
(* The call just made found that a new key is needed. *)
NewKeyNeeded == Seen("ClearMemory", log)

(* The Policy Engine rejects every key the LCP service returns (none, if   *)
(* the service returns an empty list); every AVR is valid.                 *)
NoUsableCandidate ==
  \A k \in lcpKeys : EKI[k].ValidAVR /\ ~IsUsable(k, now)

(* C11: when a new key is needed and the LCP service returns no candidate  *)
(* or only candidates the Policy Engine rejects, the call fails, submits   *)
(* no registration, writes no record to the store and leaves memory at     *)
(* (none, none).                                                           *)
C11_NoUsableKey ==
  (Returned /\ NewKeyNeeded /\ NoUsableCandidate) =>
    /\ ret = "err"
    /\ ~Seen("SendMsgs", log)
    /\ ~Seen("SaveFinalized", log) /\ ~Seen("SaveUnfinalized", log)
    /\ activeEnclaveKey = Nil /\ unfinalizedMsgID = Nil

(* C11 holds of every configuration in which no key the service returns    *)
(* has status OK together with an advisory id.                             *)
C11_ButForAdvisories ==
  (\A k \in lcpKeys : OKHasNoAdvisory(k)) => C11_NoUsableKey

----------------------------------------------------------------------------
(* A candidate that passes AVR validation and the Policy Engine now. *)
Passes(k) == EKI[k].ValidAVR /\ IsUsable(k, now)

(* The first such candidate in the order the LCP service returns the keys. *)
FirstPassing ==
  CHOOSE k \in lcpKeys : Passes(k) /\ \A j \in lcpKeys : Passes(j) => k <= j

(* C12: when a call selects a new key, selection returns the first         *)
(* candidate, in the order the LCP service returns them, that passes AVR   *)
(* validation and the policy checks; candidates that fail are skipped      *)
(* without aborting the selection, which fails only if no candidate        *)
(* passes.                                                                 *)
C12_SelectsFirstPassing ==
  (Returned /\ NewKeyNeeded /\ fault = "none") =>
    LET sel == selectNewEnclaveKey("none") IN
    IF \E k \in lcpKeys : Passes(k)
      THEN ~sel.err /\ sel.eki = FirstPassing
      ELSE sel.err

(* C12 holds of every configuration in which every returned key has a     *)
(* valid AVR and the MRENCLAVE of the configuration, and none has status   *)
(* OK together with an advisory id.                                        *)
C12_ButForUncheckedRules ==
  (\A k \in lcpKeys : EKI[k].ValidAVR /\ MrenclaveMatches(k) /\ OKHasNoAdvisory(k))
    => C12_SelectsFirstPassing

----------------------------------------------------------------------------
(* The key the call just made selected, if it selected one. *)
Selected == selectNewEnclaveKey(fault).eki

(* The operator may register key k: it is one of the operators of the      *)
(* client state, and the report data of k names no other operator.         *)
OperatorMayRegister(k) ==
  /\ Operator \in operatorCfg.operators
  /\ EKI[k].ExpectedOperator \in {ZeroAddress, Operator}

(* C13: with operator co-signing enabled a call submits a registration     *)
(* only if the operator is in the operator set of the client state and the *)
(* selected key's expected operator is zero or that operator; otherwise    *)
(* the call fails before SendMsgs and saves no record.  A submitted        *)
(* message carries an operator signature if and only if co-signing is      *)
(* enabled.                                                                *)
C13_OperatorGate ==
  (Returned /\ Seen("Select", log)) =>
    /\ (operatorCfg.enabled /\ Seen("SendMsgs", log)) => OperatorMayRegister(Selected)
    /\ (operatorCfg.enabled /\ ~OperatorMayRegister(Selected)) =>
         /\ ret = "err"
         /\ ~Seen("SendMsgs", log)
         /\ ~Seen("SaveFinalized", log) /\ ~Seen("SaveUnfinalized", log)
         /\ activeEnclaveKey = Nil /\ unfinalizedMsgID = Nil
    /\ Seen("SendMsgs", log) => (Seen("OperatorSignature", log) <=> operatorCfg.enabled)
    /\ Seen("OperatorSignature", log) =>
         Pos("OperatorSignature", log) < Pos("SendMsgs", log)

(* Co-signing is enabled and the report data of the selected key names     *)
(* another operator: the call failed before SendMsgs.                      *)
C13_Witness ==
  /\ ret = "err" /\ fault = "none" /\ log = <<"ClearMemory", "Select">>
  /\ operatorCfg.enabled /\ Operator \in operatorCfg.operators
  /\ EKI[Selected].ExpectedOperator \notin {ZeroAddress, Operator}
  /\ MrenclaveMatches(Selected)

(* The operator is not among the operators of the client state. *)
C13_WitnessNotInSet ==
  /\ ret = "err" /\ fault = "none" /\ log = <<"ClearMemory", "Select">>
  /\ operatorCfg.enabled /\ Operator \notin operatorCfg.operators
  /\ MrenclaveMatches(Selected)

(* A registration was submitted with, and one without, an operator         *)
(* signature.                                                              *)
C13_WitnessSigned ==
  /\ ret = "ok" /\ operatorCfg.enabled
  /\ Seen("OperatorSignature", log) /\ Seen("SendMsgs", log)
  /\ EKI[activeEnclaveKey].ExpectedOperator = Operator
C13_WitnessUnsigned ==
  /\ ret = "ok" /\ ~operatorCfg.enabled
  /\ Seen("SendMsgs", log) /\ ~Seen("OperatorSignature", log)
  /\ EKI[activeEnclaveKey].ExpectedOperator \notin {ZeroAddress, Operator}

----------------------------------------------------------------------------
(* The call just made submitted a registration and found the message       *)
(* executed with success.                                                  *)
RegisteredWithSuccess ==
  /\ Returned /\ Seen("SendMsgs", log)
  /\ fault \notin {"ids", "lfheader", "msglost", "msgfail"}

(* The message of the call just made is in a finalized block: it was       *)
(* included in the latest block.                                           *)
IncludedFinalized == latestHeight <= lfHeight

(* C14 as stated: after a registration that succeeded, the store has a     *)
(* Finalized record of the key and memory is (eki, none) if the message's  *)
(* block is finalized, and otherwise the store has the Unfinalized record  *)
(* (eki, msg_id) and memory is (eki, msg_id).                              *)
C14_Original ==
  RegisteredWithSuccess =>
    IF IncludedFinalized
      THEN /\ Selected \in finalizedDB
           /\ activeEnclaveKey = Selected /\ unfinalizedMsgID = Nil
      ELSE /\ unfinalizedMsgID # Nil
           /\ [eki |-> Selected, msgID |-> unfinalizedMsgID] \in unfinalizedDB
           /\ activeEnclaveKey = Selected

(* SaveUnfinalized refuses the selected key: the store holds the           *)
(* unfinalized record of another key.                                      *)
SaveRefused == \E r \in unfinalizedDB : r.eki # Selected

(* C14: after a registration that succeeded, the call saves a Finalized    *)
(* record and sets memory to (eki, none) if the message's block is         *)
(* finalized, and otherwise saves the Unfinalized record (eki, msg_id) and *)
(* sets memory to (eki, msg_id), the message being included with success   *)
(* in the latest block; it fails, with memory (none, none) and nothing     *)
(* saved, exactly when the save fails: on a store fault, or because the    *)
(* store holds the unfinalized record of another key.                      *)
C14_PersistByFinality ==
  RegisteredWithSuccess =>
    IF ret = "err"
      THEN /\ fault = "save" \/ (~IncludedFinalized /\ SaveRefused)
           /\ activeEnclaveKey = Nil /\ unfinalizedMsgID = Nil
           /\ ~Seen("SaveFinalized", log) /\ ~Seen("SaveUnfinalized", log)
    ELSE IF IncludedFinalized
      THEN /\ fault = "none"
           /\ Seen("SaveFinalized", log) /\ ~Seen("SaveUnfinalized", log)
           /\ Selected \in finalizedDB
           /\ activeEnclaveKey = Selected /\ unfinalizedMsgID = Nil
      ELSE /\ fault = "none"
           /\ Seen("SaveUnfinalized", log) /\ ~Seen("SaveFinalized", log)
           /\ unfinalizedMsgID # Nil
           /\ unfinalizedDB = {[eki |-> Selected, msgID |-> unfinalizedMsgID]}
           /\ activeEnclaveKey = Selected
           /\ GetMsgResult(msgs, unfinalizedMsgID) =
                [status |-> "ok", height |-> latestHeight]

(* A registration was finalized at once; one was included in a block that  *)
(* is not finalized while the store held finalized records; one could not  *)
(* be saved because of another key's unfinalized record.                   *)
C14_Witness ==
  /\ RegisteredWithSuccess /\ ret = "ok" /\ ~IncludedFinalized
  /\ finalizedDB # {} /\ activeEnclaveKey \notin finalizedDB
C14_WitnessFinalized ==
  /\ RegisteredWithSuccess /\ ret = "ok" /\ IncludedFinalized
  /\ Cardinality(finalizedDB) > 1
C14_WitnessRefused ==
  /\ RegisteredWithSuccess /\ ret = "err" /\ fault = "none" /\ SaveRefused

----------------------------------------------------------------------------
(* The call just made was SetupHeadersForUpdate, and its call of           *)
(* UpdateEKIfNeeded failed, or returned OK.                                *)
EnsureFailed == Seen("UpdateEKFailed", log)
EnsureDone == Seen("UpdateEKDone", log)

(* The requests the call just made sent to the LCP service. *)
ToLCP == {i \in 1..Len(forwarded) : forwarded[i].to = "lcp"}

(* C15: SetupHeadersForUpdate calls UpdateEKIfNeeded before anything       *)
(* else.  If that call fails, SetupHeadersForUpdate fails and forwards     *)
(* nothing to the origin prover or the LCP service; otherwise it asks the  *)
(* origin prover first, and every UpdateClient request it sends has as its *)
(* signer the key that UpdateEKIfNeeded left in memory, which is present.  *)
C15_EnsureFirst ==
  /\ EnsureFailed => (ret = "err" /\ forwarded = <<>>)
  /\ EnsureDone =>
       /\ ret # "panic"
       /\ activeEnclaveKey # Nil
       /\ forwarded # <<>>
       /\ forwarded[1] = OriginRequest("SetupHeadersForUpdate")
       /\ \A i \in 2..Len(forwarded) :
            forwarded[i] = LCPRequest("UpdateClient", activeEnclaveKey)

(* A call registered a new key and sent every header of the origin prover  *)
(* to the LCP service with that key as the signer.                         *)
C15_Witness ==
  /\ ret = "ok" /\ EnsureDone /\ Seen("SetMemory", log)
  /\ Cardinality(ToLCP) = MaxHeaders
  /\ \A i \in ToLCP : forwarded[i].signer = activeEnclaveKey

(* UpdateEKIfNeeded failed after it had cleared memory, and nothing was    *)
(* forwarded.                                                              *)
C15_WitnessFailed ==
  /\ ret = "err" /\ EnsureFailed /\ NewKeyNeeded /\ forwarded = <<>>

----------------------------------------------------------------------------
(* The call just made was ProveState. *)
ProveStateCalled ==
  Returned /\ forwarded # <<>> /\ forwarded[1] = OriginRequest("ProveState")

(* C16: in any call order, ProveState as the first operation on a fresh    *)
(* prover included, ProveState does not dereference an absent active key,  *)
(* and the signer of its VerifyMembership request is a key that is         *)
(* present.                                                                *)
C16_ProveStateHasKey ==
  ProveStateCalled =>
    /\ ret # "panic"
    /\ \A i \in ToLCP : forwarded[i].signer # Nil

(* C16, further: ProveState forwards with a key that UpdateEKIfNeeded      *)
(* would keep, since it has called it first.                               *)
C16_ProveStateKeyFresh ==
  (ProveStateCalled /\ ret = "ok" /\ activeEnclaveKey # Nil /\ unfinalizedMsgID = Nil) =>
    ~checkEKIUpdateNeeded("none", now, activeEnclaveKey)

----------------------------------------------------------------------------
ComputedExpiration(message) == message.timestamp + getKeyExpiration

(* C17: registering an enclave key that is already registered is a no-op:  *)
(* once a RegisterEnclaveKeyMessage has been accepted, the same message    *)
(* (the same key, the same computed expiration) passes verification again  *)
(* and leaves the stored expiration as it is.                              *)
C17_DuplicateIsNoOp ==
  (clientMsg.handled /\ ~clientMsg.err) =>
    /\ ~verifyRegisterEnclaveKey(enclaveKeys, clientMsg.message)
    /\ ClientState_registerEnclaveKey(enclaveKeys, clientMsg.message) = enclaveKeys

(* C17, the part about the store: no registration changes an expiration    *)
(* that is stored.                                                         *)
C17_StoredNeverChanged ==
  [][\A key \in ClientKeys :
       Contains(enclaveKeys, key) => enclaveKeys'[key] = enclaveKeys[key]]_vars

(* C17, the part about a differing expiration: a message for a stored key  *)
(* whose computed expiration is not the one read back from the store is    *)
(* rejected.                                                               *)
C17_DifferentRejected ==
  (/\ clientMsg.handled
   /\ clientMsg.before # NotStored
   /\ ComputedExpiration(clientMsg.message) # UnixTime(clientMsg.before)) => clientMsg.err

(* C17: what the store reads back is the computed expiration only when the *)
(* AVR's timestamp is a whole number of seconds.                           *)
C17_ReadBackWholeSeconds ==
  (clientMsg.handled /\ ~clientMsg.err) =>
    (~verifyRegisterEnclaveKey(enclaveKeys, clientMsg.message)
       <=> clientMsg.message.timestamp % InstantsPerSecond = 0
           \/ (clientMsg.before # NotStored))

----------------------------------------------------------------------------
(* A finalized active key is in memory and no call is in progress. *)
FinalizedInMemory == ret = "idle" /\ activeEnclaveKey # Nil /\ unfinalizedMsgID = Nil

(* The Policy Engine would reject key k: MRENCLAVE, quote status or         *)
(* advisory ids.                                                           *)
PolicyRejects(k) ==
  ~(MrenclaveMatches(k) /\ OKHasNoAdvisory(k) /\ StatusAllowed(k) /\ AdvisoriesAllowed(k))

(* C18: with a finalized active key in memory, the update-needed predicate *)
(* is true if and only if the LCP service no longer knows the key, or now  *)
(* is past half of the expiration, or the Policy Engine would reject the   *)
(* key.                                                                    *)
C18_UpdateNeededIff ==
  FinalizedInMemory =>
    (checkEKIUpdateNeeded("none", now, activeEnclaveKey)
       <=> \/ activeEnclaveKey \notin lcpKeys
           \/ now > HalfLife(activeEnclaveKey)
           \/ PolicyRejects(activeEnclaveKey))

(* C18, without the Policy Engine: the predicate is true if and only if    *)
(* the LCP service no longer knows the key or now is past half of the      *)
(* expiration.                                                             *)
C18_ButForPolicy ==
  FinalizedInMemory =>
    (checkEKIUpdateNeeded("none", now, activeEnclaveKey)
       <=> \/ activeEnclaveKey \notin lcpKeys
           \/ now > HalfLife(activeEnclaveKey))

----------------------------------------------------------------------------
(* Key k is in memory with its registration in flight, and the message is  *)
(* found, succeeded, and at or below the latest finalized height.          *)
InFlightFinalized(k) ==
  /\ k # Nil /\ activeEnclaveKey = k /\ unfinalizedMsgID # Nil
  /\ GetMsgResult(msgs, unfinalizedMsgID).status = "ok"
  /\ GetMsgResult(msgs, unfinalizedMsgID).height <= lfHeight

(* The store holds the Finalized record of k and no Unfinalized record of  *)
(* it.                                                                     *)
Promoted(k, fin, unf) == k \in fin /\ \A r \in unf : r.eki # k

(* C19: when the in-flight registration is found, succeeded and finalized, *)
(* a call that meets no fault promotes the key before it applies the       *)
(* staleness predicate: afterwards the store holds the key's Finalized     *)
(* record and no Unfinalized record for it, whether or not the key needed  *)
(* rotation.                                                               *)
C19_PromoteFirst ==
  [][\A k \in KeyAddrs :
       (InFlightFinalized(k) /\ CallStep /\ fault' = "none") =>
         Promoted(k, finalizedDB', unfinalizedDB')]_vars

(* C19, for a key that does not need rotation: the call promotes it and    *)
(* keeps it.                                                               *)
C19_PromotesIfFresh ==
  [][\A k \in KeyAddrs :
       (/\ InFlightFinalized(k) /\ CallStep /\ fault' = "none"
        /\ ~checkEKIUpdateNeeded("none", now, k)) =>
         /\ Promoted(k, finalizedDB', unfinalizedDB')
         /\ activeEnclaveKey' = k /\ unfinalizedMsgID' = Nil
         /\ log' = <<"SaveFinalized", "RemoveUnfinalized">>]_vars

(* C19, for a key that needs rotation: the call writes no Finalized record *)
(* for it and does not remove its Unfinalized record.                      *)
C19_StaleNotPromoted ==
  [][\A k \in KeyAddrs :
       (/\ InFlightFinalized(k) /\ CallStep /\ fault' = "none"
        /\ checkEKIUpdateNeeded("none", now, k)) =>
         /\ k \in finalizedDB' <=> k \in finalizedDB
         /\ \A r \in unfinalizedDB : r.eki = k => r \in unfinalizedDB'
         /\ ~Seen("RemoveUnfinalized", log')]_vars

----------------------------------------------------------------------------
(* The call just made submitted a registration that then failed: the       *)
(* destination returned a number of message ids other than one, the status *)
(* probe failed, or the message executed without success.                  *)
FailedAfterSubmission ==
  /\ Returned /\ Seen("SendMsgs", log)
  /\ fault \in {"ids", "lfheader", "msglost", "msgfail"}

C20_StoreAsBefore ==
  [][(CallStep /\ FailedAfterSubmission') =>
       /\ finalizedDB' = finalizedDB
       /\ unfinalizedDB' = IF Seen("RemoveUnfinalized", log') THEN {} ELSE unfinalizedDB]_vars

C20_WitnessIDs == FailedAfterSubmission /\ fault = "ids" /\ finalizedDB # {}
C20_WitnessProbe == FailedAfterSubmission /\ fault \in {"lfheader", "msglost"}
C20_WitnessFailed ==
  FailedAfterSubmission /\ fault = "msgfail" /\ Seen("RemoveUnfinalized", log)

(* A registration failed after submission and the record of the stale key  *)
(* is still in the store.                                                  *)
C20_WitnessLeftover == FailedAfterSubmission /\ unfinalizedDB # {}

----------------------------------------------------------------------------
(* The presence probe of the call being made fails, or the call is made    *)
(* with a registration in flight and GetMsgResult fails for its message:   *)
(* the code sees an error and nothing of its cause.                        *)
ProbeFails == fault' = "probe"
GetMsgResultFails ==
  unfinalizedMsgID # Nil /\ GetMsgResult(msgs, unfinalizedMsgID).status = "notfound"

(* C21: a transient failure of an external call made during                *)
(* UpdateEKIfNeeded with a key in memory, be it the LCP service's          *)
(* EnclaveKey presence probe or the destination's GetMsgResult query for   *)
(* the registration in flight, makes the call return the error without     *)
(* writing or removing any store record and without a rotation.            *)
C21_TransientBubbles ==
  [][(CallStep /\ activeEnclaveKey # Nil /\ (ProbeFails \/ GetMsgResultFails)) =>
       /\ ret' = "err"
       /\ finalizedDB' = finalizedDB /\ unfinalizedDB' = unfinalizedDB
       /\ ~Rotates(log')]_vars

(* C21, what the code does with a failed presence probe: it takes the key  *)
(* for one the LCP service does not know, and rotates.                     *)
C21_ProbeFailureRotates ==
  (Returned /\ fault = "probe") => Rotates(log)

(* C21, what the code does with a failed GetMsgResult: it takes the        *)
(* message for lost, removes the unfinalized record and rotates, unless    *)
(* the removal fails.                                                      *)
C21_GetMsgResultFailureRotates ==
  [][(CallStep /\ activeEnclaveKey # Nil /\ GetMsgResultFails /\ fault' # "remove") =>
       /\ Seen("RemoveUnfinalized", log')
       /\ Rotates(log')]_vars

(* C21, for the failures that do return at once: a failing load, latest    *)
(* finalized header or key list ends the call with the error, and the call *)
(* saves nothing.                                                          *)
C21_OtherFailuresBubble ==
  (Returned /\ fault \in {"load", "loadfin", "lfheader", "list"}) =>
    /\ ret = "err"
    /\ Writes(log) \subseteq {"RemoveUnfinalized"}

----------------------------------------------------------------------------
(* The call just made failed after it had cleared memory: in selection,    *)
(* registration, the status probe or the persist step.                     *)
FailedAfterClear == ret = "err" /\ Seen("ClearMemory", log)

(* C22: if the call fails after it cleared memory, memory is left at       *)
(* (none, none), the call has saved nothing (the only write it can have    *)
(* committed is the removal of the unfinalized record, before it cleared   *)
(* memory), and the following call starts from the empty-memory path: it   *)
(* reloads the unfinalized record if the store has one, else the last      *)
(* finalized record, else it goes on to select.                            *)
C22_FailedAfterClear ==
  FailedAfterClear =>
    /\ activeEnclaveKey = Nil /\ unfinalizedMsgID = Nil
    /\ Writes(log) \subseteq {"RemoveUnfinalized"}
    /\ \A ctx \in Faults \ {"load", "loadfin"} : \A last \in Lasts :
         LET lg == NextCall(ctx, last).st.log IN
         /\ lg # <<>>
         /\ lg[1] = IF unfinalizedDB # {} THEN "LoadUnfinalized"
                    ELSE IF finalizedDB # {} THEN "LoadFinalized"
                    ELSE "ClearMemory"

(* C22, the store before and after: a call that fails after it cleared     *)
(* memory leaves the finalized records as they were, and the unfinalized   *)
(* records as they were unless it had removed them.                        *)
C22_StoreAsCommitted ==
  [][(CallStep /\ FailedAfterClear') =>
       /\ finalizedDB' = finalizedDB
       /\ unfinalizedDB' = IF Seen("RemoveUnfinalized", log') THEN {} ELSE unfinalizedDB]_vars

(* A call failed in the persist step, after selection and registration,    *)
(* with a key in the store to reload.                                      *)
C22_Witness ==
  /\ FailedAfterClear /\ fault = "save" /\ Seen("SendMsgs", log)
  /\ finalizedDB # {}

(* A call failed in selection, in registration, in the status probe. *)
C22_WitnessSelection == FailedAfterClear /\ Seen("SelectFailed", log)
C22_WitnessRegistration ==
  FailedAfterClear /\ Seen("Select", log) /\ ~Seen("SendMsgs", log)
C22_WitnessStatus == FailedAfterClear /\ fault \in {"lfheader", "msglost"} /\ Seen("SendMsgs", log)

(* A call failed after it had removed the unfinalized record. *)
C22_WitnessRemoved == FailedAfterClear /\ Seen("RemoveUnfinalized", log)

----------------------------------------------------------------------------
(* The call just made selected a candidate whose quote's MRENCLAVE is not  *)
(* the one of the destination's LCP client state.                          *)
SelectedMrenclaveMismatch ==
  /\ Returned /\ Seen("Select", log)
  /\ EKI[Selected].MRENCLAVE # ClientStateMrenclave

(* C23: when the MRENCLAVE of the destination's client state differs from  *)
(* the MRENCLAVE of the candidate's quote, the call fails before SendMsgs: *)
(* no message is submitted, none is signed by the operator, nothing is     *)
(* saved and memory stays (none, none).                                    *)
C23_MrenclaveMismatch ==
  SelectedMrenclaveMismatch =>
    /\ ret = "err"
    /\ ~Seen("SendMsgs", log) /\ ~Seen("OperatorSignature", log)
    /\ Writes(log) \subseteq {"RemoveUnfinalized"}
    /\ activeEnclaveKey = Nil /\ unfinalizedMsgID = Nil
    /\ \A id \in MsgIDs : msgs[id] = NoMsg \/ \E r \in unfinalizedDB : r.msgID = id

(* A call selected a candidate with another MRENCLAVE, with no fault in    *)
(* effect and with the operator, if enabled, entitled to sign.             *)
C23_Witness ==
  /\ SelectedMrenclaveMismatch /\ fault = "none"
  /\ IsOperatorEnabled => Operator \in ClientStateOperators

----------------------------------------------------------------------------
(* The client id CreateClient returned to the call just made, if the call  *)
(* got that far.                                                           *)
ReturnedClientId(id) == Returned /\ Len(log) = 3 /\ log[3] = id

(* C24: CreateInitialLightClientState fails, returning no client state,    *)
(* whenever the client id CreateClient returned differs from the           *)
(* configured elc_client_id; it returns a client state only when they are  *)
(* equal, and then the one with the policy fields of the configuration and *)
(* a zero latest height.                                                   *)
C24_ClientIdMustMatch ==
  Returned =>
    /\ (\E id \in {"lcp-0", "lcp-1"} : id # ElcClientId /\ ReturnedClientId(id)) =>
         ret = "err" /\ created.nil
    /\ ret = "ok" <=> ~created.nil
    /\ ~created.nil =>
         /\ ReturnedClientId(ElcClientId)
         /\ created.LatestHeight = 0
         /\ created.Mrenclave = Mrenclave
         /\ created.KeyExpiration = KeyExpiration
         /\ created.AllowedQuoteStatuses = AllowedQuoteStatuses
         /\ created.AllowedAdvisoryIds = AllowedAdvisoryIds

(* CreateClient returned another client id than the configured one. *)
C24_Witness == ReturnedClientId("lcp-1")

(* CreateClient returned the configured client id. *)
C24_WitnessEqual == ReturnedClientId(ElcClientId) /\ ~created.nil

----------------------------------------------------------------------------
(* The hard-invalid time of key k: attestation time plus key expiration. *)
HardExpiry(k) == TimeUnix(EKI[k].AttestationTime) + KeyExpiration * Second

(* C25: whenever UpdateEKIfNeeded returns OK at time now, the active key,  *)
(* finalized or not, loaded, promoted or freshly selected, is not past its *)
(* half-life, and so strictly before its hard-invalid time.                *)
C25_NotPastHalfLife ==
  ReturnedOK =>
    /\ activeEnclaveKey # Nil
    /\ now <= HalfLife(activeEnclaveKey)
    /\ now < HardExpiry(activeEnclaveKey)

(* A call returned OK at the very half-life of a key it kept in memory. *)
C25_Witness ==
  ReturnedOK /\ log = <<>> /\ now = HalfLife(activeEnclaveKey)

(* OK with a key just loaded, just promoted, just selected, and with an    *)
(* unfinalized key.                                                        *)
C25_WitnessLoaded == ReturnedOK /\ log = <<"LoadFinalized">>
C25_WitnessPromoted == ReturnedOK /\ Seen("SaveFinalized", log) /\ ~Seen("Select", log)
C25_WitnessSelected == ReturnedOK /\ Seen("Select", log) /\ now > 0
C25_WitnessUnfinalized == ReturnedOK /\ unfinalizedMsgID # Nil /\ log = <<>>

----------------------------------------------------------------------------
(* The client message handled last was an UpdateClientMessage, a           *)
(* RegisterEnclaveKeyMessage.                                              *)
UpdateHandled == clientMsg.handled /\ clientMsg.kind = "update"
RegisterHandled == clientMsg.handled /\ clientMsg.kind = "register"

(* C26: an UpdateClientMessage is rejected unless its signer is a          *)
(* registered enclave key whose stored expiration is strictly after the    *)
(* block time, so that a signer never registered is always rejected; and   *)
(* the stored expiration of a key is never after the attestation time plus *)
(* the key expiration of the message that registered it, so that the key   *)
(* is unusable from that block time onward.                                *)
C26_SignerMustBeActive ==
  /\ (UpdateHandled /\ ~clientMsg.err) =>
       /\ clientMsg.before # NotStored
       /\ UnixTime(clientMsg.before) > clientMsg.at
  /\ (RegisterHandled /\ ~clientMsg.err) =>
       /\ Contains(enclaveKeys, clientMsg.message.addr)
       /\ UnixTime(enclaveKeys[clientMsg.message.addr])
            <= ComputedExpiration(clientMsg.message)

(* An update was accepted at the last instant before its signer's stored   *)
(* expiration.                                                             *)
C26_Witness ==
  /\ UpdateHandled /\ ~clientMsg.err
  /\ clientMsg.at = UnixTime(clientMsg.before) - 1

(* An update was rejected at the very instant of its signer's stored       *)
(* expiration; an update of a signer never registered was rejected.        *)
C26_WitnessExpired ==
  /\ UpdateHandled /\ clientMsg.err /\ clientMsg.before # NotStored
  /\ clientMsg.at = UnixTime(clientMsg.before)
C26_WitnessUnregistered ==
  UpdateHandled /\ clientMsg.err /\ clientMsg.before = NotStored /\ csLatestHeight > 0

----------------------------------------------------------------------------
(* The step hands the client an UpdateClientMessage that it accepts; the   *)
(* step hands it a RegisterEnclaveKeyMessage.                              *)
UpdateAccepted ==
  /\ clientMsg'.handled /\ clientMsg'.kind = "update" /\ ~clientMsg'.err
  /\ blockTime' = blockTime
RegisterStep ==
  clientMsg'.handled /\ clientMsg'.kind = "register" /\ blockTime' = blockTime

(* C30: the client state's latest height never decreases; an accepted      *)
(* UpdateClientMessage raises it to the message's post height only when    *)
(* that is higher and always stores the consensus state (post state id,    *)
(* timestamp) at the post height, leaving the other heights alone; a       *)
(* RegisterEnclaveKeyMessage leaves the latest height and every consensus  *)
(* state unchanged.                                                        *)
C30_LatestHeightMonotone ==
  [][/\ csLatestHeight' >= csLatestHeight
     /\ UpdateAccepted =>
          LET post == clientMsg'.message.PostHeight IN
          /\ csLatestHeight' = IF post > csLatestHeight THEN post ELSE csLatestHeight
          /\ consensusStates'[post] =
               [StateId |-> clientMsg'.message.PostStateID, Timestamp |-> post]
          /\ \A h \in ClientHeights \ {post} : consensusStates'[h] = consensusStates[h]
     /\ RegisterStep =>
          /\ csLatestHeight' = csLatestHeight
          /\ consensusStates' = consensusStates]_vars

(* An update for a height below the latest height was accepted: its        *)
(* consensus state is stored and the latest height stays.                  *)
C30_Witness ==
  /\ UpdateHandled /\ ~clientMsg.err
  /\ clientMsg.message.PostHeight < csLatestHeight
  /\ consensusStates[clientMsg.message.PostHeight].StateId = clientMsg.message.PostStateID

(* An update raised the latest height; a registration was handled by a     *)
(* client that holds consensus states.                                     *)
C30_WitnessRaised ==
  /\ UpdateHandled /\ ~clientMsg.err
  /\ clientMsg.message.PostHeight = csLatestHeight /\ csLatestHeight = MaxClientHeight
  /\ consensusStates[1] # NoConsensusState
C30_WitnessRegister == RegisterHandled /\ ~clientMsg.err /\ csLatestHeight > 0

----------------------------------------------------------------------------
(* Memory and store agree. *)
MemoryAgreesWithStore ==
  /\ unfinalizedMsgID # Nil =>
       /\ activeEnclaveKey # Nil
       /\ [eki |-> activeEnclaveKey, msgID |-> unfinalizedMsgID] \in unfinalizedDB
  /\ (activeEnclaveKey # Nil /\ unfinalizedMsgID = Nil) =>
       activeEnclaveKey \in finalizedDB

C27_WitnessUnfinalized == ret = "ok" /\ unfinalizedMsgID # Nil /\ Seen("SetMemory", log)
C27_WitnessPromoted == ret = "ok" /\ log = <<"SaveFinalized", "RemoveUnfinalized">>

----------------------------------------------------------------------------
(* The destination client accepts the quote status and advisory ids of key *)
(* k; the relayer's selection does.                                        *)
OnChainAccepts(k) ==
  ~verifyQuoteStatus(EKI[k].ISVEnclaveQuoteStatus, EKI[k].AdvisoryIDs)
RelayerAccepts(k) ==
  /\ validateISVEnclaveQuoteStatus(EKI[k].ISVEnclaveQuoteStatus)
  /\ validateAdvisoryIDs(EKI[k].AdvisoryIDs)

(* C29: for the same policy, every candidate that selectNewEnclaveKey      *)
(* accepts on quote status and advisory ids is accepted on them by the     *)
(* destination client's verifyRegisterEnclaveKey; a candidate with status  *)
(* OK and advisory ids is accepted by neither.                             *)
C29_SelectionRefinesOnChain ==
  (Returned /\ Seen("Select", log)) =>
    /\ OnChainAccepts(Selected)
    /\ ~(EKI[Selected].ISVEnclaveQuoteStatus = QuoteOK /\ EKI[Selected].AdvisoryIDs # {})

(* C29, but for status OK with advisory ids: every other candidate the     *)
(* relayer selects is accepted on chain, and the two rules agree on every  *)
(* key of the table that is not of that kind.                              *)
C29_ButForOKWithAdvisories ==
  /\ (Returned /\ Seen("Select", log) /\ OKHasNoAdvisory(Selected)) => OnChainAccepts(Selected)
  /\ \A k \in KeyAddrs : OKHasNoAdvisory(k) => (RelayerAccepts(k) <=> OnChainAccepts(k))

----------------------------------------------------------------------------
(* Rotation under the conditions of liveness: no store or transport       *)
(* operation of a call fails, and the destination chain accepts every      *)
(* registration and reports it as succeeded, so that the fate of a message *)
(* changes by finalization only.  Nothing is assumed of the clock, of the  *)
(* LCP service, of restarts or of the chain's progress.                    *)
EnsureActiveKey == UpdateEKIfNeeded /\ fault' = "none"

NextLive ==
  \/ EnsureActiveKey
  \/ Return
  \/ Restart
  \/ Tick
  \/ LCPChange
  \/ NewBlock
  \/ Finalize

(* The relayer's service loop calls UpdateEKIfNeeded again and again and   *)
(* every call returns: calls and returns are weakly fair.  A step of       *)
(* NextLive that takes ret from "idle" to an outcome is a step of          *)
(* EnsureActiveKey, which is enabled whenever ret is "idle".               *)
Called == ret = "idle" /\ ret' \in {"ok", "err"}

SpecLive == Init /\ [][NextLive]_vars /\ WF_ret(Called) /\ WF_vars(Return)

(* The LCP service offers a candidate that passes policy. *)
CandidateOffered == \E k \in lcpKeys : IsUsable(k, now)

(* The destination chain has accepted every registration the prover holds  *)
(* the message id of, and reports it as succeeded.                         *)
MessagesSucceed ==
  \A id \in MsgIDs :
    Held(St(activeEnclaveKey, unfinalizedMsgID, finalizedDB, unfinalizedDB, <<>>), id)
      => msgs[id].status = "ok"

(* An unfinalized record whose key needs an update: it has passed its      *)
(* half-life, or the LCP service does not know it.                         *)
LeftoverUnfinalized ==
  \E r \in unfinalizedDB : checkEKIUpdateNeeded("none", now, r.eki)
StaleUnfinalized == \E r \in unfinalizedDB : ~NotPastHalfLife(r.eki, now)

(* C28: if from some point on the LCP service offers a candidate that      *)
(* passes policy, with every registration accepted and reported as         *)
(* succeeded and no store or transport operation failing, then repeated    *)
(* calls of UpdateEKIfNeeded return OK again and again.                    *)
C28_EventuallyOK == <>[]CandidateOffered => []<>ReturnedOK

(* C28 from a state with an unfinalized record whose key has passed its    *)
(* half-life: if such a record is in the store from some point on, the     *)
(* calls still return OK again and again.                                  *)
C28_FromStaleUnfinalized ==
  <>[](CandidateOffered /\ StaleUnfinalized) => []<>ReturnedOK

(* C28, but for an unfinalized record whose key needs an update: if no     *)
(* such record is in the store from some point on, the calls return OK     *)
(* again and again.                                                        *)
C28_ButForLeftover ==
  <>[](CandidateOffered /\ ~LeftoverUnfinalized) => []<>ReturnedOK

(* No failure in any state of this specification. *)
C28_NothingFails == MessagesSucceed /\ fault = "none"

----------------------------------------------------------------------------
(* Creation of the ELC client next to key rotation: the prover rotates its *)
(* key with no operation failing while the LCP service gains and loses     *)
(* keys and the destination chain finalizes, and creates the ELC client by *)
(* either operation, in any order.                                         *)
NextElc ==
  \/ EnsureActiveKey
  \/ CreateInitialLightClientState
  \/ DoCreateELC
  \/ Return
  \/ LCPChange
  \/ Finalize

SpecElc == Init /\ [][NextElc]_vars

(* A step that is a call of CreateInitialLightClientState or doCreateELC,   *)
(* and the state after one: the first thing the call did tells.            *)
CreationLog(lg) ==
  lg # <<>> /\ lg[1] \in {"Select", "SelectFailed", "GetLatestFinalizedHeader"}
CreationStep == ret = "idle" /\ ret' # "idle" /\ CreationLog(log')
CreationReturned == Returned /\ CreationLog(log)

(* The enclave key CreateClient was signed with, if the call sent one. *)
CreateClientSigners ==
  {forwarded[i].signer : i \in {j \in DOMAIN forwarded : forwarded[j].op = "CreateClient"}}

(* C31: a call of CreateInitialLightClientState or doCreateELC, whether it *)
(* succeeds or fails, leaves the key and message id in memory and the      *)
(* records of the store as they were, and submits no registration to the   *)
(* destination chain.                                                      *)
C31_OnlyBorrowsKey ==
  [][CreationStep =>
       /\ UNCHANGED <<activeEnclaveKey, unfinalizedMsgID, finalizedDB, unfinalizedDB>>
       /\ UNCHANGED msgs
       /\ ~Seen("SendMsgs", log')]_vars

(* C31 happens: CreateClient was signed with a key other than the active   *)
(* key, which is still in memory with its record in the store; a creation  *)
(* failed with a registration in flight; doCreateELC created the client    *)
(* with a key while memory was empty.                                      *)
C31_Witness ==
  /\ CreationReturned /\ ret = "ok"
  /\ activeEnclaveKey # Nil /\ finalizedDB # {}
  /\ CreateClientSigners # {} /\ activeEnclaveKey \notin CreateClientSigners
C31_WitnessFailed ==
  /\ CreationReturned /\ ret = "err" /\ Seen("Select", log)
  /\ unfinalizedMsgID # Nil /\ unfinalizedDB # {}
C31_WitnessELC ==
  /\ CreationReturned /\ Seen("Created", log)
  /\ activeEnclaveKey = Nil /\ CreateClientSigners # {}

----------------------------------------------------------------------------
(* A step that is a call of doCreateELC for the client id, and the state   *)
(* after one.                                                              *)
DoCreateELCLog(lg, id) ==
  lg # <<>> /\ lg[1] = "GetLatestFinalizedHeader" /\ lg[Len(lg)] = id
DoCreateELCStep(id) == ret = "idle" /\ ret' # "idle" /\ DoCreateELCLog(log', id)
DoCreateELCReturned(id) == Returned /\ DoCreateELCLog(log, id)

(* The call sent a CreateClient request to the LCP service. *)
SentCreateClient(fw) == \E i \in DOMAIN fw : fw[i].op = "CreateClient"

(* C32: when the LCP service reports that the client with the given id     *)
(* exists, doCreateELC returns Created = false without selecting an        *)
(* enclave key and without sending CreateClient; a client that doCreateELC *)
(* created is held by the LCP service from then on, so that no further     *)
(* call of doCreateELC for it sends a CreateClient request.                *)
C32_CreateELCIdempotent ==
  [][\A id \in ElcClientIds :
       /\ (DoCreateELCStep(id) /\ Seen("Created", log')) => id \in elcClients'
       /\ id \in elcClients => id \in elcClients'
       /\ (DoCreateELCStep(id) /\ id \in elcClients) =>
            /\ ~SentCreateClient(forwarded')
            /\ ~Seen("Select", log') /\ ~Seen("SelectFailed", log')
            /\ ~Seen("Created", log')
            /\ (Seen("Client", log') /\ fault' # "client") =>
                 ret' = "ok" /\ Seen("NotCreated", log')]_vars

(* C32 happens: doCreateELC returned Created = false for a client the LCP  *)
(* service holds; doCreateELC created a client.                            *)
C32_Witness ==
  \E id \in ElcClientIds :
    /\ DoCreateELCReturned(id) /\ id \in elcClients
    /\ ret = "ok" /\ Seen("NotCreated", log) /\ ~SentCreateClient(forwarded)
C32_WitnessCreated ==
  \E id \in ElcClientIds :
    /\ DoCreateELCReturned(id) /\ id \in elcClients
    /\ ret = "ok" /\ Seen("Created", log) /\ SentCreateClient(forwarded)

====
